---- MODULE Spec2Model ----
(***************************************************************************)
(* A model of the BookFinder catalog client (services/openLibraryApi.js):  *)
(* searchBooks with its in-memory cache, timeout and fallback catalog,     *)
(* getPopularBooksWithCovers, and getBookDetails.                          *)
(*                                                                         *)
(* JavaScript values are modelled as tagged records so that truthiness,    *)
(* Array.isArray and missing properties behave as they do in the code.     *)
(***************************************************************************)
EXTENDS FiniteSets, Integers, Sequences, TLC

(***************************************************************************)
(* JavaScript values                                                       *)
(***************************************************************************)
Undefined == [t |-> "undefined", n |-> 0, s |-> "", a |-> <<>>]
Null == [t |-> "null", n |-> 0, s |-> "", a |-> <<>>]
Num(n) == [t |-> "number", n |-> n, s |-> "", a |-> <<>>]
Str(s) == [t |-> "string", n |-> 0, s |-> s, a |-> <<>>]
Arr(a) == [t |-> "array", n |-> 0, s |-> "", a |-> a]

\* ToBoolean: undefined, null, 0 and "" are falsy; every array is truthy.
Truthy(v) ==
    CASE v.t = "undefined" -> FALSE
      [] v.t = "null" -> FALSE
      [] v.t = "number" -> v.n # 0
      [] v.t = "string" -> v.s # ""
      [] OTHER -> TRUE

IsArray(v) == v.t = "array"

Min(a, b) == IF a < b THEN a ELSE b

\* Array.prototype.slice(from, to) for 0 <= from, on a TLA+ sequence.
Slice(seq, from, to) ==
    SubSeq(seq, from + 1, Min(to, Len(seq)))

RECURSIVE FilterSeq(_, _)
\* Array.prototype.filter with the predicate given as the set of kept indices.
FilterSeq(seq, keep) ==
    IF seq = <<>> THEN <<>>
    ELSE LET n == Len(seq)
             front == FilterSeq(SubSeq(seq, 1, n - 1), keep)
         IN IF n \in keep THEN Append(front, seq[n]) ELSE front

(***************************************************************************)
(* Strings: toLowerCase, includes, trim                                    *)
(***************************************************************************)
UpperCase == "ABCDEFGHIJKLMNOPQRSTUVWXYZ"
LowerCase == "abcdefghijklmnopqrstuvwxyz"

CharAt(s, i) == SubSeq(s, i, i)

ToLowerChar(c) ==
    IF \E i \in 1..Len(UpperCase) : CharAt(UpperCase, i) = c
    THEN CharAt(LowerCase, CHOOSE i \in 1..Len(UpperCase) : CharAt(UpperCase, i) = c)
    ELSE c

RECURSIVE ToLowerCase(_)
ToLowerCase(s) ==
    IF s = "" THEN ""
    ELSE ToLowerChar(CharAt(s, 1)) \o ToLowerCase(SubSeq(s, 2, Len(s)))

\* String.prototype.includes
Includes(s, part) ==
    \E i \in 0..(Len(s) - Len(part)) : SubSeq(s, i + 1, i + Len(part)) = part

RECURSIVE TrimStart(_)
TrimStart(s) ==
    IF s # "" /\ CharAt(s, 1) = " " THEN TrimStart(SubSeq(s, 2, Len(s))) ELSE s

RECURSIVE TrimEnd(_)
TrimEnd(s) ==
    IF s # "" /\ CharAt(s, Len(s)) = " " THEN TrimEnd(SubSeq(s, 1, Len(s) - 1)) ELSE s

\* String.prototype.trim
Trim(s) == TrimEnd(TrimStart(s))

(***************************************************************************)
(* Configuration                                                           *)
(***************************************************************************)
\* import.meta.env.DEV of the build under study (a production build).
DEV == FALSE
BASE_URL == IF DEV THEN "/api/openlibrary" ELSE "https://openlibrary.org"
COVERS_BASE_URL == IF DEV THEN "/api/covers" ELSE "https://covers.openlibrary.org"

CACHE_DURATION == 5 * 60 * 1000
FETCH_TIMEOUT == 8000
DISPLAY_LIMIT == 15
MAX_AUTHORS == 3

(***************************************************************************)
(* Book records.  A property the object does not have reads as undefined.  *)
(***************************************************************************)
Book(key, title, author_name, first_publish_year, cover_i) ==
    [kind |-> "object", key |-> key, title |-> title, author_name |-> author_name,
     first_publish_year |-> first_publish_year, cover_i |-> cover_i,
     publisher |-> Undefined, isbn |-> Undefined, language |-> Undefined,
     subject |-> Undefined, cover_url |-> Undefined]

\* A null element of a docs array.
NullDoc == [Book(Undefined, Undefined, Undefined, Undefined, Undefined)
                EXCEPT !.kind = "null"]

FALLBACK_BOOKS ==
    << Book(Str("/works/OL82563W"), Str("Harry Potter and the Philosopher's Stone"),
            Arr(<<"J.K. Rowling">>), Num(1997), Num(258027)),
       Book(Str("/works/OL27449W"), Str("The Great Gatsby"),
            Arr(<<"F. Scott Fitzgerald">>), Num(1925), Num(7222246)),
       Book(Str("/works/OL103867W"), Str("To Kill a Mockingbird"),
            Arr(<<"Harper Lee">>), Num(1960), Num(2657175)),
       Book(Str("/works/OL1168007W"), Str("Pride and Prejudice"),
            Arr(<<"Jane Austen">>), Num(1813), Num(1063720)),
       Book(Str("/works/OL5735363W"), Str("The Hobbit"),
            Arr(<<"J.R.R. Tolkien">>), Num(1937), Num(442473)) >>

\* A search result: the docs and the counts (other raw fields are carried
\* through by the spread and never read).
Result(docs, numFound, totalCount) ==
    [docs |-> docs, numFound |-> numFound, totalCount |-> totalCount]

getFallbackBooks ==
    Result([i \in 1..Len(FALLBACK_BOOKS) |->
               [FALLBACK_BOOKS[i] EXCEPT !.cover_url =
                   Str(COVERS_BASE_URL \o "/b/id/"
                       \o ToString(FALLBACK_BOOKS[i].cover_i.n) \o "-M.jpg")]],
           Num(Len(FALLBACK_BOOKS)), Num(Len(FALLBACK_BOOKS)))

(***************************************************************************)
(* searchBooks: the pure parts                                             *)
(***************************************************************************)
fastProcessBookData_KeepsAuthorField(book) ==
    [book EXCEPT
       !.title = IF Truthy(book.title) THEN book.title ELSE Str("Untitled"),
       !.publisher = Undefined, !.isbn = Undefined, !.language = Undefined,
       !.subject = Undefined, !.cover_url = Undefined]

fastProcessBookData(book) ==
    [kind |-> "object",
     key |-> book.key,
     title |-> IF Truthy(book.title) THEN book.title ELSE Str("Untitled"),
     author_name |-> IF IsArray(book.author_name)
                     THEN Arr(Slice(book.author_name.a, 0, MAX_AUTHORS))
                     ELSE Arr(<<>>),
     first_publish_year |-> book.first_publish_year,
     cover_i |-> book.cover_i,
     publisher |-> Undefined, isbn |-> Undefined, language |-> Undefined,
     subject |-> Undefined, cover_url |-> Undefined]

processBookData(book) ==
    [book EXCEPT
       !.title = IF Truthy(book.title) THEN book.title ELSE Str("Untitled"),
       !.author_name = IF IsArray(book.author_name) THEN book.author_name ELSE Arr(<<>>),
       !.publisher = IF IsArray(book.publisher) THEN book.publisher ELSE Arr(<<>>),
       !.isbn = IF IsArray(book.isbn) THEN book.isbn ELSE Arr(<<>>),
       !.language = IF IsArray(book.language) THEN book.language ELSE Arr(<<>>),
       !.subject = IF IsArray(book.subject)
                   THEN Arr(Slice(book.subject.a, 0, 5)) ELSE Arr(<<>>)]

\* The filter of the success path: a title and either a cover or an author.
HasTitleAndCoverOrAuthor(book) ==
    Truthy(book.title) /\ (Truthy(book.cover_i) \/ Truthy(book.author_name))

\* A parsed response body: null, a non-object scalar, or an object whose docs
\* property is missing ("undefined"), null, an array, or a non-array truthy value.
Body(kind, docsType, docs, numFound) ==
    [kind |-> kind, docsType |-> docsType, docs |-> docs, numFound |-> numFound]

DocsTruthy(data) == data.kind = "object" /\ data.docsType \in {"array", "string"}

\* The TypeErrors of lines 90-100: reading docs of null, calling filter on a
\* non-array, reading title of a null element.
ProcessingThrows(data) ==
    \/ data.kind = "null"
    \/ /\ DocsTruthy(data)
       /\ \/ data.docsType # "array"
          \/ \E i \in 1..Len(data.docs) : data.docs[i].kind = "null"

ProcessedBooks_CutsBeforeFilter(data) ==
    IF DocsTruthy(data)
    THEN LET cut == Slice(data.docs, 0, DISPLAY_LIMIT)
             kept == FilterSeq(cut, {i \in 1..Len(cut) : HasTitleAndCoverOrAuthor(cut[i])})
         IN [i \in 1..Len(kept) |-> fastProcessBookData(kept[i])]
    ELSE <<>>

ProcessedBooks(data) ==
    IF DocsTruthy(data)
    THEN LET kept == FilterSeq(data.docs,
                        {i \in 1..Len(data.docs) : HasTitleAndCoverOrAuthor(data.docs[i])})
             cut == Slice(kept, 0, DISPLAY_LIMIT)
         IN [i \in 1..Len(cut) |-> fastProcessBookData(cut[i])]
    ELSE <<>>

\* { ...data, docs: processedBooks }
SuccessResult(data) ==
    Result(ProcessedBooks(data),
           IF data.kind = "object" THEN data.numFound ELSE Undefined,
           Undefined)

FallbackMatches_EitherField(book, title, author) ==
    \/ Truthy(title) /\ Includes(ToLowerCase(book.title.s), ToLowerCase(title.s))
    \/ /\ Truthy(author)
       /\ \E i \in 1..Len(book.author_name.a) :
             Includes(ToLowerCase(book.author_name.a[i]), ToLowerCase(author.s))

FallbackMatches(book, title, author) ==
    LET searchTerm == ToLowerCase(IF Truthy(title) THEN title.s ELSE "")
        authorTerm == ToLowerCase(IF Truthy(author) THEN author.s ELSE "")
        matchesTitle == ~Truthy(title) \/ Includes(ToLowerCase(book.title.s), searchTerm)
        matchesAuthor ==
            \/ ~Truthy(author)
            \/ /\ Truthy(book.author_name)
               /\ \E i \in 1..Len(book.author_name.a) :
                     Includes(ToLowerCase(book.author_name.a[i]), authorTerm)
    IN matchesTitle /\ matchesAuthor

\* The catch block of searchBooks.
FallbackResult(title, author) ==
    LET fallbackData == getFallbackBooks
    IN IF Truthy(title) \/ Truthy(author)
       THEN LET docs == FilterSeq(fallbackData.docs,
                           {i \in 1..Len(fallbackData.docs) :
                               FallbackMatches(fallbackData.docs[i], title, author)})
            IN Result(docs, Num(Len(docs)), Num(Len(docs)))
       ELSE fallbackData

(***************************************************************************)
(* searchBooks: the cache key                                              *)
(***************************************************************************)
Criteria(title, author, subject) ==
    [title |-> title, author |-> author, subject |-> subject]

\* One property of JSON.stringify's output; an undefined property is left out.
\* (The inputs of the model hold no character that JSON escapes.)
JsonProperty(name, v) ==
    IF v.t = "undefined" THEN "" ELSE "\"" \o name \o "\":\"" \o v.s \o "\","

\* JSON.stringify({ title, author, subject, limit, offset })
CacheKey(criteria, limit, offset) ==
    "{" \o JsonProperty("title", criteria.title)
        \o JsonProperty("author", criteria.author)
        \o JsonProperty("subject", criteria.subject)
        \o "\"limit\":" \o ToString(limit)
        \o ",\"offset\":" \o ToString(offset) \o "}"

\* The query string of the request: each supplied field trimmed.
RequestParam(v) == IF Truthy(v) THEN Trim(v.s) ELSE ""

RequestQuery(criteria, limit, offset) ==
    [title |-> RequestParam(criteria.title), author |-> RequestParam(criteria.author),
     subject |-> RequestParam(criteria.subject), limit |-> limit, offset |-> offset]

SearchCriteria ==
    { Criteria(Str("hobbit"), Undefined, Undefined),
      Criteria(Str(" hobbit"), Undefined, Undefined) }

\* The criteria of the data specification: the form passes "" for a field left
\* empty, the convenience wrappers leave the other fields undefined.
DataCriteria ==
    { Criteria(Str("hobbit"), Str(""), Str("")),
      Criteria(Str("HOBBIT"), Undefined, Undefined),
      Criteria(Str("the"), Undefined, Undefined),
      Criteria(Str("zzz"), Undefined, Undefined),
      Criteria(Str("the"), Str("jane"), Undefined),
      Criteria(Str("pride"), Str("AUSTEN"), Undefined),
      Criteria(Undefined, Str("tolkien"), Undefined),
      Criteria(Undefined, Undefined, Str("fiction")) }

\* getPopularBooksWithCovers: the fixed query list, in order, and the broader
\* query of the top-up.
reliableQueries ==
    << Criteria(Str("harry potter"), Undefined, Undefined),
       Criteria(Undefined, Str("stephen king"), Undefined),
       Criteria(Undefined, Str("agatha christie"), Undefined),
       Criteria(Str("lord of the rings"), Undefined, Undefined),
       Criteria(Undefined, Str("jane austen"), Undefined),
       Criteria(Str("sherlock holmes"), Undefined, Undefined),
       Criteria(Undefined, Str("j.k. rowling"), Undefined),
       Criteria(Undefined, Str("tolkien"), Undefined),
       Criteria(Undefined, Str("dan brown"), Undefined),
       Criteria(Str("game of thrones"), Undefined, Undefined),
       Criteria(Undefined, Str("george martin"), Undefined),
       Criteria(Undefined, Undefined, Str("fiction")) >>

BroadQuery == Criteria(Undefined, Undefined, Str("literature"))

PopularCriteria == {reliableQueries[i] : i \in 1..Len(reliableQueries)} \cup {BroadQuery}

AllCriteria == SearchCriteria \cup DataCriteria \cup PopularCriteria

FallbackTable == [criteria \in AllCriteria |->
                     FallbackResult(criteria.title, criteria.author)]

(***************************************************************************)
(* State                                                                   *)
(***************************************************************************)
VARIABLES
    now,          \* Date.now(), in milliseconds
    searchCache,  \* the Map: cache key -> [data, timestamp]
    calls,        \* the searchBooks invocations, one record per call slot
    popular,      \* the getPopularBooksWithCovers invocation
    details,      \* the getBookDetails invocation
    view,         \* the last call of a display helper: its arguments and result
    theme,        \* the ThemeProvider: its state, its effects, the localStorage
    cover,        \* the BookCoverDetail component of the detail page
    home,         \* the HomePage component and its requests in flight
    form,         \* the BookSearch form and its debounce timer
    dom           \* the document: the classes of root and body, the route

vars == <<now, searchCache, calls, popular, details, view, theme, cover, home, form, dom>>

NoResult == Result(<<>>, Undefined, Undefined)
NoCriteria == Criteria(Undefined, Undefined, Undefined)

\* A call slot.  deadline is meaningful while the timer is armed, doneAt once
\* the call has completed.
IdleCall ==
    [pc |-> "idle", criteria |-> NoCriteria, limit |-> 0, offset |-> 0,
     timer |-> "none", deadline |-> 0, doneAt |-> 0, outcome |-> "none",
     result |-> NoResult]

KeyOf(call) == CacheKey(call.criteria, call.limit, call.offset)

\* Map.prototype.set
MapSet(map, key, value) ==
    [k \in DOMAIN map \cup {key} |-> IF k = key THEN value ELSE map[k]]

CacheValid_ServesAtTTL(cache, key, t) ==
    key \in DOMAIN cache /\ t - cache[key].timestamp <= CACHE_DURATION

CacheValid_NeverExpires(cache, key, t) ==
    key \in DOMAIN cache

\* Lines 37-38: the entry is served while it is younger than CACHE_DURATION.
CacheValid(cache, key, t) ==
    key \in DOMAIN cache /\ t - cache[key].timestamp < CACHE_DURATION

\* The catch block's result for the criteria of a call.  The table holds
\* FallbackResult for the criteria the specifications use, computed once.
FallbackFor(criteria) ==
    IF criteria \in DOMAIN FallbackTable
    THEN FallbackTable[criteria]
    ELSE FallbackResult(criteria.title, criteria.author)

(***************************************************************************)
(* searchBooks: the steps between its awaits                               *)
(***************************************************************************)
\* Lines 33-79: the call up to its first await.  A valid cache entry is
\* returned at once; otherwise the timeout is armed and the request issued.
StartedCall(criteria, limit, offset) ==
    LET key == CacheKey(criteria, limit, offset)
        started == [IdleCall EXCEPT !.criteria = criteria, !.limit = limit,
                                    !.offset = offset]
    IN IF CacheValid(searchCache, key, now)
       THEN [started EXCEPT !.pc = "done", !.outcome = "cached",
                            !.doneAt = now, !.result = searchCache[key].data]
       ELSE [started EXCEPT !.pc = "fetch", !.timer = "armed",
                            !.deadline = now + FETCH_TIMEOUT]

SearchStart(c, criteria, limit, offset) ==
    /\ calls[c].pc = "idle"
    /\ calls' = [calls EXCEPT ![c] = StartedCall(criteria, limit, offset)]
    /\ UNCHANGED <<now, searchCache, popular, details, view, theme, cover, home, form, dom>>

SearchFail_ReturnsEmpty(call) ==
    [call EXCEPT !.pc = "done", !.outcome = "fallback", !.doneAt = now,
                 !.result = Result(<<>>, Num(0), Num(0))]

\* Lines 109-136: the catch block; the cache is not written.
SearchFail(call) ==
    [call EXCEPT !.pc = "done", !.outcome = "fallback", !.doneAt = now,
                 !.result = FallbackFor(call.criteria)]

\* Lines 71-85: fetch resolved with a response; the timeout is cleared, and a
\* non-success status throws into the catch block.
FetchResolve(c, ok) ==
    /\ calls[c].pc = "fetch"
    /\ LET cleared == [calls[c] EXCEPT !.timer = "cleared", !.deadline = 0]
       IN calls' = [calls EXCEPT ![c] =
                       IF ok THEN [cleared EXCEPT !.pc = "body"] ELSE SearchFail(cleared)]
    /\ UNCHANGED <<now, searchCache, popular, details, view, theme, cover, home, form, dom>>

\* Line 71: fetch rejected (a network error); clearTimeout is skipped.
FetchReject(c) ==
    /\ calls[c].pc = "fetch"
    /\ calls' = [calls EXCEPT ![c] = SearchFail(calls[c])]
    /\ UNCHANGED <<now, searchCache, popular, details, view, theme, cover, home, form, dom>>

\* Line 69: the timeout fires and aborts the request, which rejects the fetch
\* still in flight; on a call that already completed it has no effect.
TimeoutFire(c) ==
    /\ calls[c].timer = "armed"
    /\ now >= calls[c].deadline
    /\ LET fired == [calls[c] EXCEPT !.timer = "fired", !.deadline = 0]
       IN calls' = [calls EXCEPT ![c] =
                       IF calls[c].pc = "fetch" THEN SearchFail(fired) ELSE fired]
    /\ UNCHANGED <<now, searchCache, popular, details, view, theme, cover, home, form, dom>>

BodyResolve_KeepsFirstEntry(c, data) ==
    /\ calls[c].pc = "body"
    /\ ~ProcessingThrows(data)
    /\ LET result == SuccessResult(data)
       IN /\ searchCache' = IF CacheValid(searchCache, KeyOf(calls[c]), now)
                            THEN searchCache
                            ELSE MapSet(searchCache, KeyOf(calls[c]),
                                        [data |-> result, timestamp |-> now])
          /\ calls' = [calls EXCEPT ![c].pc = "done", ![c].outcome = "network",
                                    ![c].doneAt = now, ![c].result = result]
    /\ UNCHANGED <<now, popular, details, view, theme, cover, home, form, dom>>

\* Lines 87-108: the body parsed to data; the docs are filtered, cut and
\* normalised, the result cached and returned.  A TypeError lands in the catch.
BodyResolve(c, data) ==
    /\ calls[c].pc = "body"
    /\ IF ProcessingThrows(data)
       THEN /\ calls' = [calls EXCEPT ![c] = SearchFail(calls[c])]
            /\ UNCHANGED <<now, searchCache, popular, details, view, theme, cover, home, form, dom>>
       ELSE LET result == SuccessResult(data)
            IN /\ searchCache' = MapSet(searchCache, KeyOf(calls[c]),
                                        [data |-> result, timestamp |-> now])
               /\ calls' = [calls EXCEPT ![c].pc = "done", ![c].outcome = "network",
                                         ![c].doneAt = now, ![c].result = result]
               /\ UNCHANGED <<now, popular, details, view, theme, cover, home, form, dom>>

BodyReject_CachesFallback(c) ==
    /\ calls[c].pc = "body"
    /\ calls' = [calls EXCEPT ![c] = SearchFail(calls[c])]
    /\ searchCache' = MapSet(searchCache, KeyOf(calls[c]),
                             [data |-> FallbackFor(calls[c].criteria), timestamp |-> now])
    /\ UNCHANGED <<now, popular, details, view, theme, cover, home, form, dom>>

\* Line 87: response.json() rejected (the body is not JSON).
BodyReject(c) ==
    /\ calls[c].pc = "body"
    /\ calls' = [calls EXCEPT ![c] = SearchFail(calls[c])]
    /\ UNCHANGED <<now, searchCache, popular, details, view, theme, cover, home, form, dom>>

\* The caller took the result; the slot is free for a later call once the
\* call's timer can no longer fire.
SearchReturn(c) ==
    /\ calls[c].pc = "done"
    /\ calls[c].timer # "armed"
    /\ calls' = [calls EXCEPT ![c] = IdleCall]
    /\ UNCHANGED <<now, searchCache, popular, details, view, theme, cover, home, form, dom>>

(***************************************************************************)
(* getBookDetails                                                          *)
(***************************************************************************)
StartsWith(s, prefix) ==
    Len(s) >= Len(prefix) /\ SubSeq(s, 1, Len(prefix)) = prefix

EndsWith(s, suffix) ==
    Len(s) >= Len(suffix) /\ SubSeq(s, Len(s) - Len(suffix) + 1, Len(s)) = suffix

RECURSIVE LastSegment(_)
\* key.split("/").pop()
LastSegment(s) ==
    IF \E i \in 1..Len(s) : CharAt(s, i) = "/"
    THEN LastSegment(SubSeq(s, (CHOOSE i \in 1..Len(s) : CharAt(s, i) = "/") + 1, Len(s)))
    ELSE s

\* Lines 385-393: both branches prepend "/works/".
CleanKey(bookKey) ==
    IF ~StartsWith(bookKey, "/works/")
    THEN IF StartsWith(bookKey, "OL") /\ EndsWith(bookKey, "W")
         THEN "/works/" \o bookKey
         ELSE "/works/" \o bookKey
    ELSE bookKey

\* An entry of a work's authors array: a string, an object with an author
\* reference ("ref", its key in s), an object with a name ("named"), an object
\* with neither ("object"), a number, or null.
AuthorEntry(t, s) == [t |-> t, s |-> s]

\* A list-valued property whose elements are not JavaScript scalars.
List(t, v) == [t |-> t, v |-> v]

\* A work document; description is a string or an object with a value property.
Work(title, authors, description, subjects, covers, first_publish_date) ==
    [kind |-> "object", title |-> title, authors |-> authors,
     description |-> description, first_sentence |-> Undefined,
     subjects |-> subjects, covers |-> covers,
     first_publish_date |-> first_publish_date]

NullWork ==
    [Work(Undefined, List("undefined", <<>>), Undefined, Undefined,
          List("undefined", <<>>), Undefined) EXCEPT !.kind = "null"]

\* An entry of the editions document.
Edition(publishers, isbn_13, isbn_10, languages) ==
    [publishers |-> publishers, isbn_13 |-> isbn_13, isbn_10 |-> isbn_10,
     languages |-> languages]

\* The parsed editions document, or null when none was retrieved.
Editions(kind, entries, size) == [kind |-> kind, entries |-> entries, size |-> size]
NoEditions == Editions("null", <<>>, Undefined)

\* Lines 457-468.  Reading a property of a null entry throws.
ExtractAuthorsThrows(authors) ==
    authors.t = "array" /\ \E i \in 1..Len(authors.v) : authors.v[i].t = "null"

extractAuthors(authors) ==
    IF authors.t # "array" THEN <<>>
    ELSE [i \in 1..Len(authors.v) |->
             LET author == authors.v[i]
             IN CASE author.t = "string" -> author.s
                  [] author.t = "ref" -> LastSegment(author.s)
                  [] author.t = "named" /\ author.s # "" -> author.s
                  [] OTHER -> "Unknown Author"]

\* new Date(first_publish_date).getFullYear() for the date strings of the
\* model, in a time zone at or east of UTC; an unparseable date gives NaN.
DateYears ==
    [s \in {"1937", "September 21, 1937", "1965-08-01"} |->
        IF s = "1965-08-01" THEN 1965 ELSE 1937]

NaN == [t |-> "NaN", n |-> 0, s |-> "", a |-> <<>>]

FirstPublishYear(date) ==
    IF Truthy(date)
    THEN IF date.t = "string" /\ date.s \in DOMAIN DateYears
         THEN Num(DateYears[date.s]) ELSE NaN
    ELSE Null

\* A description given as an object: { type: "/type/text", value: ... }.
DescriptionObject(value) == [t |-> "object", n |-> 0, s |-> value, a |-> <<>>]

\* BookDetail.jsx, lines 275-286: the text the detail view renders for a
\* record's description; nothing is rendered for a falsy description.
DescriptionText(description) ==
    IF ~Truthy(description) THEN Undefined
    ELSE IF description.t = "string" THEN description
    ELSE IF description.s # "" THEN Str(description.s)
    ELSE description

ProcessedBook_ExtractsDescription(bookData, editionsData) ==
    [title |-> IF Truthy(bookData.title) THEN bookData.title ELSE Str("Untitled"),
     author_name |-> extractAuthors(bookData.authors),
     description |-> DescriptionText(bookData.description),
     first_sentence |-> bookData.first_sentence,
     subject |-> IF IsArray(bookData.subjects) THEN bookData.subjects ELSE Arr(<<>>),
     cover_i |-> IF bookData.covers.t = "array" /\ Len(bookData.covers.v) >= 1
                    /\ bookData.covers.v[1] # 0
                 THEN Num(bookData.covers.v[1]) ELSE Null,
     first_publish_year |-> FirstPublishYear(bookData.first_publish_date),
     publisher |-> Undefined, isbn |-> Undefined, language |-> Undefined,
     edition_count |-> Undefined]

\* Lines 420-441: the record built from the work and its first edition.
ProcessedBook(bookData, editionsData) ==
    LET first == IF editionsData.kind = "object" /\ Len(editionsData.entries) >= 1
                 THEN <<editionsData.entries[1]>> ELSE <<>>
        Or(a, b) == IF Truthy(a) THEN a ELSE b
    IN [title |-> Or(bookData.title, Str("Untitled")),
        author_name |-> extractAuthors(bookData.authors),
        description |-> bookData.description,
        first_sentence |-> bookData.first_sentence,
        subject |-> IF IsArray(bookData.subjects) THEN bookData.subjects ELSE Arr(<<>>),
        cover_i |-> IF bookData.covers.t = "array" /\ Len(bookData.covers.v) >= 1
                       /\ bookData.covers.v[1] # 0
                    THEN Num(bookData.covers.v[1]) ELSE Null,
        first_publish_year |-> FirstPublishYear(bookData.first_publish_date),
        publisher |-> IF first = <<>> THEN Undefined
                      ELSE Or(first[1].publishers, Arr(<<>>)),
        isbn |-> IF first = <<>> THEN Undefined
                 ELSE Or(first[1].isbn_13, Or(first[1].isbn_10, Arr(<<>>))),
        language |-> IF first = <<>> THEN Undefined
                     ELSE Or(first[1].languages, Arr(<<>>)),
        edition_count |-> IF first = <<>> THEN Undefined
                          ELSE Or(editionsData.size, Num(1))]

NoBook == ProcessedBook(Work(Undefined, List("undefined", <<>>), Undefined, Undefined,
                             List("undefined", <<>>), Undefined), NoEditions)

IdleDetails ==
    [pc |-> "idle", bookKey |-> "", cleanKey |-> "", requests |-> <<>>,
     workFetch |-> "none", editionsFetch |-> "none", bookData |-> NullWork,
     outcome |-> "none", error |-> "", book |-> NoBook]

FAILED_TO_FETCH ==
    "Failed to fetch book details. Please check your connection and try again."

DetailsFail_ReturnsEmptyRecord(d) ==
    [d EXCEPT !.pc = "done", !.outcome = "returned", !.book = NoBook]

\* Lines 444-449: the catch block rethrows one user-facing error.
DetailsFail(d) ==
    [d EXCEPT !.pc = "done", !.outcome = "error", !.error = FAILED_TO_FETCH]

\* Lines 419-443, or the catch block when building the record throws.
DetailsBuild(d, editionsData) ==
    IF d.bookData.kind = "null" \/ ExtractAuthorsThrows(d.bookData.authors)
    THEN DetailsFail(d)
    ELSE [d EXCEPT !.pc = "done", !.outcome = "returned",
                   !.book = ProcessedBook(d.bookData, editionsData)]

\* Lines 385-398: the key is cleaned and the work document requested.
DetailsStart(bookKey) ==
    /\ details.pc = "idle"
    /\ details' = [IdleDetails EXCEPT !.pc = "work", !.bookKey = bookKey,
                      !.cleanKey = CleanKey(bookKey),
                      !.requests = <<BASE_URL \o CleanKey(bookKey) \o ".json">>]
    /\ UNCHANGED <<now, searchCache, calls, popular, view, theme, cover, home, form, dom>>

\* Lines 398-402: the work fetch resolved; a non-success status throws.
WorkResolve(ok) ==
    /\ details.pc = "work"
    /\ details' = IF ok THEN [details EXCEPT !.pc = "workBody", !.workFetch = "ok"]
                  ELSE DetailsFail([details EXCEPT !.workFetch = "status"])
    /\ UNCHANGED <<now, searchCache, calls, popular, view, theme, cover, home, form, dom>>

\* Line 398: the work fetch rejected (a network error).
WorkReject ==
    /\ details.pc = "work"
    /\ details' = DetailsFail([details EXCEPT !.workFetch = "rejected"])
    /\ UNCHANGED <<now, searchCache, calls, popular, view, theme, cover, home, form, dom>>

\* Lines 404-411: the work document parsed; the editions are requested.
WorkBodyResolve(bookData) ==
    /\ details.pc = "workBody"
    /\ details' = [details EXCEPT !.pc = "editions", !.bookData = bookData,
                      !.requests = Append(@, BASE_URL \o details.cleanKey
                                                \o "/editions.json")]
    /\ UNCHANGED <<now, searchCache, calls, popular, view, theme, cover, home, form, dom>>

\* Line 404: the work body is not JSON.
WorkBodyReject ==
    /\ details.pc = "workBody"
    /\ details' = DetailsFail(details)
    /\ UNCHANGED <<now, searchCache, calls, popular, view, theme, cover, home, form, dom>>

\* Lines 411-414: the editions fetch resolved; a non-success status leaves
\* editionsData null.
EditionsResolve(ok) ==
    /\ details.pc = "editions"
    /\ details' = IF ok THEN [details EXCEPT !.pc = "editionsBody", !.editionsFetch = "ok"]
                  ELSE DetailsBuild([details EXCEPT !.editionsFetch = "status"], NoEditions)
    /\ UNCHANGED <<now, searchCache, calls, popular, view, theme, cover, home, form, dom>>

EditionsReject_Propagates ==
    /\ details.pc = "editions"
    /\ details' = DetailsFail([details EXCEPT !.editionsFetch = "rejected"])
    /\ UNCHANGED <<now, searchCache, calls, popular, view, theme, cover, home, form, dom>>

\* Lines 415-417: the editions fetch rejected; the error is logged and dropped.
EditionsReject ==
    /\ details.pc = "editions"
    /\ details' = DetailsBuild([details EXCEPT !.editionsFetch = "rejected"], NoEditions)
    /\ UNCHANGED <<now, searchCache, calls, popular, view, theme, cover, home, form, dom>>

\* Line 413: the editions document parsed.
EditionsBodyResolve(editionsData) ==
    /\ details.pc = "editionsBody"
    /\ details' = DetailsBuild(details, editionsData)
    /\ UNCHANGED <<now, searchCache, calls, popular, view, theme, cover, home, form, dom>>

\* Lines 413-417: the editions body is not JSON; the inner catch drops the error.
EditionsBodyReject ==
    /\ details.pc = "editionsBody"
    /\ details' = DetailsBuild([details EXCEPT !.editionsFetch = "unparseable"], NoEditions)
    /\ UNCHANGED <<now, searchCache, calls, popular, view, theme, cover, home, form, dom>>

\* The caller took the record or the error.
DetailsReturn ==
    /\ details.pc = "done"
    /\ details' = IdleDetails
    /\ UNCHANGED <<now, searchCache, calls, popular, view, theme, cover, home, form, dom>>

(***************************************************************************)
(* getPopularBooksWithCovers                                               *)
(***************************************************************************)
QUERY_LIMIT == 25
BROAD_LIMIT == 50
EXTRAS_FACTOR == 3
COVER_CEILING == 8000000
BROAD_COVER_CEILING == 10000000
SORT_DEFAULT == 999999

\* Lines 309-324: the filter on the docs of one query of the list.
HasReliableCover(book) ==
    /\ Truthy(book.cover_i)
    /\ book.cover_i.n # -1
    /\ book.cover_i.n > 0
    /\ book.cover_i.n < COVER_CEILING
    /\ Truthy(book.title)
    /\ book.title.s # "Untitled"
    /\ Len(book.title.s) > 2
    /\ Truthy(book.author_name)
    /\ Len(book.author_name.a) > 0
    /\ Truthy(book.first_publish_year)
    /\ book.first_publish_year.n > 1700
    /\ book.first_publish_year.n < 2025
    /\ ~Includes(ToLowerCase(book.title.s), "unnamed")

BroadFilter_NoCoverCeiling(book, uniqueBooks) ==
    /\ Truthy(book.cover_i)
    /\ book.cover_i.n # -1
    /\ book.cover_i.n > 0
    /\ Truthy(book.title)
    /\ Len(book.title.s) > 1
    /\ Truthy(book.author_name)
    /\ Len(book.author_name.a) > 0
    /\ ~\E j \in 1..Len(uniqueBooks) : uniqueBooks[j].key = book.key

\* Lines 347-359: the filter on the docs of the top-up query.
BroadFilter(book, uniqueBooks) ==
    /\ Truthy(book.cover_i)
    /\ book.cover_i.n # -1
    /\ book.cover_i.n > 0
    /\ book.cover_i.n < BROAD_COVER_CEILING
    /\ Truthy(book.title)
    /\ Len(book.title.s) > 1
    /\ Truthy(book.author_name)
    /\ Len(book.author_name.a) > 0
    /\ ~\E j \in 1..Len(uniqueBooks) : uniqueBooks[j].key = book.key

\* Lines 335-337: keep the first occurrence of every key.
DedupByKey(books) ==
    FilterSeq(books, {i \in 1..Len(books) :
                         ~\E j \in 1..(i - 1) : books[j].key = books[i].key})

\* The sort key of line 338: cover_i || 999999.
SortKey(book) == IF Truthy(book.cover_i) THEN book.cover_i.n ELSE SORT_DEFAULT

RECURSIVE SortByCover(_)
\* Line 338: Array.prototype.sort, which is stable, ascending by the sort key.
SortByCover(books) ==
    IF books = <<>> THEN <<>>
    ELSE LET n == Len(books)
             sorted == SortByCover(SubSeq(books, 1, n - 1))
             \* the last element goes after every element not greater than it
             at == Cardinality({j \in 1..Len(sorted) :
                                   SortKey(sorted[j]) <= SortKey(books[n])})
         IN SubSeq(sorted, 1, at) \o <<books[n]>> \o SubSeq(sorted, at + 1, Len(sorted))

NoPopularResult == [docs |-> <<>>, numFound |-> 0, showing |-> 0]

\* The state of one getPopularBooksWithCovers call.  i is the position in the
\* query list; added counts the records the top-up pushed onto uniqueBooks;
\* outcomes lists how each nested searchBooks call got its result.
IdlePopular ==
    [pc |-> "idle", targetCount |-> 0, offset |-> 0, i |-> 0, allBooks |-> <<>>,
     uniqueBooks |-> <<>>, added |-> 0, outcomes |-> <<>>, result |-> NoPopularResult]

\* The nested searchBooks calls of getPopularBooksWithCovers run in slot 0.
PopularSlot == 0

\* Lines 370-376: the window of uniqueBooks and the counts.
PopularFinish(p) ==
    LET limitedBooks == Slice(p.uniqueBooks, p.offset, p.offset + p.targetCount)
    IN [p EXCEPT !.pc = "done",
                 !.result = [docs |-> limitedBooks, numFound |-> Len(p.uniqueBooks),
                             showing |-> Len(limitedBooks)]]

PopularAdvance_NoEarlyExit(p) ==
    IF p.i <= Len(reliableQueries)
    THEN /\ popular' = [p EXCEPT !.pc = "query"]
         /\ calls' = [calls EXCEPT ![PopularSlot] =
                         StartedCall(reliableQueries[p.i], QUERY_LIMIT, 0)]
    ELSE LET uniqueBooks == SortByCover(DedupByKey(p.allBooks))
             q == [p EXCEPT !.uniqueBooks = uniqueBooks]
         IN IF Len(uniqueBooks) < p.targetCount
            THEN /\ popular' = [q EXCEPT !.pc = "topup"]
                 /\ calls' = [calls EXCEPT ![PopularSlot] =
                                 StartedCall(BroadQuery, BROAD_LIMIT, 0)]
            ELSE /\ popular' = PopularFinish(q)
                 /\ calls' = [calls EXCEPT ![PopularSlot] = IdleCall]

\* Lines 304-346, from the head of the loop to the next await: the next query
\* of the list is sent unless the list is exhausted or enough books were
\* collected; after the loop the books are deduplicated and sorted, and the
\* top-up query is sent when they are fewer than targetCount.
PopularAdvance(p) ==
    IF p.i <= Len(reliableQueries) /\ ~(Len(p.allBooks) >= p.targetCount * EXTRAS_FACTOR)
    THEN /\ popular' = [p EXCEPT !.pc = "query"]
         /\ calls' = [calls EXCEPT ![PopularSlot] =
                         StartedCall(reliableQueries[p.i], QUERY_LIMIT, 0)]
    ELSE LET uniqueBooks == SortByCover(DedupByKey(p.allBooks))
             q == [p EXCEPT !.uniqueBooks = uniqueBooks]
         IN IF Len(uniqueBooks) < p.targetCount
            THEN /\ popular' = [q EXCEPT !.pc = "topup"]
                 /\ calls' = [calls EXCEPT ![PopularSlot] =
                                 StartedCall(BroadQuery, BROAD_LIMIT, 0)]
            ELSE /\ popular' = PopularFinish(q)
                 /\ calls' = [calls EXCEPT ![PopularSlot] = IdleCall]

\* Line 284: the call, up to its first await.
PopularStart(targetCount, offset) ==
    /\ popular.pc = "idle"
    /\ calls[PopularSlot].pc = "idle"
    /\ PopularAdvance([IdlePopular EXCEPT !.targetCount = targetCount,
                                          !.offset = offset, !.i = 1])
    /\ UNCHANGED <<now, searchCache, details, view, theme, cover, home, form, dom>>

\* Lines 308-326: a query of the list returned; its docs are filtered and
\* appended, and the loop goes on.  (searchBooks never rejects, so the catch
\* of lines 327-330 is not reached.  The timer a failed call left armed only
\* aborts a request that is already settled.)
PopularCollect ==
    /\ popular.pc = "query"
    /\ calls[PopularSlot].pc = "done"
    /\ LET docs == calls[PopularSlot].result.docs
           booksWithCovers == FilterSeq(docs, {i \in 1..Len(docs) :
                                                  HasReliableCover(docs[i])})
       IN PopularAdvance([popular EXCEPT
              !.allBooks = @ \o booksWithCovers, !.i = @ + 1,
              !.outcomes = Append(@, calls[PopularSlot].outcome)])
    /\ UNCHANGED <<now, searchCache, details, view, theme, cover, home, form, dom>>

\* Lines 346-376: the top-up query returned; its docs are filtered and as
\* many as are missing are pushed onto uniqueBooks.
PopularTopUp ==
    /\ popular.pc = "topup"
    /\ calls[PopularSlot].pc = "done"
    /\ LET docs == calls[PopularSlot].result.docs
           moreBooksWithCovers ==
               FilterSeq(docs, {i \in 1..Len(docs) :
                                   BroadFilter(docs[i], popular.uniqueBooks)})
           pushed == Slice(moreBooksWithCovers, 0,
                           popular.targetCount - Len(popular.uniqueBooks))
       IN popular' = PopularFinish([popular EXCEPT
              !.uniqueBooks = @ \o pushed, !.added = Len(pushed),
              !.outcomes = Append(@, calls[PopularSlot].outcome)])
    /\ calls' = [calls EXCEPT ![PopularSlot] = IdleCall]
    /\ UNCHANGED <<now, searchCache, details, view, theme, cover, home, form, dom>>

\* The caller took the result.
PopularReturn ==
    /\ popular.pc = "done"
    /\ popular' = IdlePopular
    /\ UNCHANGED <<now, searchCache, calls, details, view, theme, cover, home, form, dom>>

(***************************************************************************)
(* The display helpers: getCoverUrl, getSimpleCoverUrl, formatAuthors      *)
(***************************************************************************)
validSizes == {"S", "M", "L"}
DEFAULT_SIZE == "S"

\* `${v}` for a number or a string.
TemplateString(v) == IF v.t = "number" THEN ToString(v.n) ELSE v.s

\* The size parameter with its default: an undefined argument reads "S".
SizeArgument(size) == IF size = Undefined THEN Str(DEFAULT_SIZE) ELSE size

getCoverUrl_KeepsAnySize(coverId, size) ==
    IF ~Truthy(coverId) \/ coverId = Num(-1) THEN Null
    ELSE Str(COVERS_BASE_URL \o "/b/id/" \o TemplateString(coverId) \o "-"
             \o TemplateString(SizeArgument(size)) \o ".jpg")

\* Lines 186-196.
getCoverUrl(coverId, size) ==
    IF ~Truthy(coverId) \/ coverId = Num(-1) THEN Null
    ELSE LET given == SizeArgument(size)
             coverSize == IF given.t = "string" /\ given.s \in validSizes
                          THEN given.s ELSE "S"
         IN Str(COVERS_BASE_URL \o "/b/id/" \o TemplateString(coverId) \o "-"
                \o coverSize \o ".jpg")

\* Lines 204-214: the same text as getCoverUrl.
getSimpleCoverUrl(coverId, size) ==
    IF ~Truthy(coverId) \/ coverId = Num(-1) THEN Null
    ELSE LET given == SizeArgument(size)
             coverSize == IF given.t = "string" /\ given.s \in validSizes
                          THEN given.s ELSE "S"
         IN Str(COVERS_BASE_URL \o "/b/id/" \o TemplateString(coverId) \o "-"
                \o coverSize \o ".jpg")

RECURSIVE Join(_, _)
\* Array.prototype.join on an array of strings.
Join(a, separator) ==
    IF a = <<>> THEN ""
    ELSE IF Len(a) = 1 THEN a[1]
    ELSE Join(SubSeq(a, 1, Len(a) - 1), separator) \o separator \o a[Len(a)]

formatAuthors_AlwaysCounts(authors) ==
    IF ~IsArray(authors) \/ Len(authors.a) = 0 THEN "Unknown Author"
    ELSE IF Len(authors.a) = 1 THEN authors.a[1]
    ELSE Join(Slice(authors.a, 0, 2), ", ") \o " & "
            \o ToString(Len(authors.a) - 2) \o " more"

\* Lines 475-489.
formatAuthors(authors) ==
    IF ~IsArray(authors) \/ Len(authors.a) = 0 THEN "Unknown Author"
    ELSE IF Len(authors.a) = 1 THEN authors.a[1]
    ELSE IF Len(authors.a) = 2 THEN Join(authors.a, " & ")
    ELSE Join(Slice(authors.a, 0, 2), ", ") \o " & "
            \o ToString(Len(authors.a) - 2) \o " more"

\* The last call of a display helper.
IdleView ==
    [op |-> "none", coverId |-> Undefined, size |-> Undefined, authors |-> Undefined,
     result |-> Undefined]

CoverUrl(coverId, size) ==
    /\ view' = [IdleView EXCEPT !.op = "getCoverUrl", !.coverId = coverId,
                                !.size = size, !.result = getCoverUrl(coverId, size)]
    /\ UNCHANGED <<now, searchCache, calls, popular, details, theme, cover, home, form, dom>>

SimpleCoverUrl(coverId, size) ==
    /\ view' = [IdleView EXCEPT !.op = "getSimpleCoverUrl", !.coverId = coverId,
                                !.size = size,
                                !.result = getSimpleCoverUrl(coverId, size)]
    /\ UNCHANGED <<now, searchCache, calls, popular, details, theme, cover, home, form, dom>>

FormatAuthors(authors) ==
    /\ view' = [IdleView EXCEPT !.op = "formatAuthors", !.authors = authors,
                                !.result = Str(formatAuthors(authors))]
    /\ UNCHANGED <<now, searchCache, calls, popular, details, theme, cover, home, form, dom>>

(***************************************************************************)
(* ThemeProvider                                                           *)
(***************************************************************************)
THEME_KEY == "bookfinder-theme"

\* theme: isDarkMode ? "dark" : "light"
ThemeName(isDarkMode) == IF isDarkMode THEN "dark" ELSE "light"

\* The provider and the storage of the browser.  phase tells which effects
\* are still to run: "mounted" after the first render, "rerendered" after the
\* render a state change caused, "settled" when none is pending.  storage is
\* the localStorage, a map from keys to strings.  chosen is the theme of the
\* last toggle ("none" before the first one).
InitialTheme ==
    [phase |-> "unloaded", isDarkMode |-> TRUE, storage |-> <<>>, chosen |-> "none"]

\* The document of a page that has just been loaded: no route rendered yet,
\* no class on the root element or on the body.  root and body tell whether
\* document.documentElement and document.body carry the class "dark".
InitialDom == [route |-> "none", root |-> FALSE, body |-> FALSE]

\* The routes of App.jsx: "/" renders HomePage, which renders Hero;
\* "/book/:bookId" renders BookDetail.
Routes == {"home", "book"}

\* classList.add("dark") or classList.remove("dark") on both elements.
WithDarkClass(d, isDarkMode) == [d EXCEPT !.root = isDarkMode, !.body = isDarkMode]

\* localStorage.getItem: null for a key that is not stored.
GetItem(storage, key) == IF key \in DOMAIN storage THEN Str(storage[key]) ELSE Null

\* Line 14: the page loads at one of the routes and the provider renders
\* with useState(true).
ThemeLoad ==
    /\ theme.phase = "unloaded"
    /\ theme' = [theme EXCEPT !.phase = "mounted", !.isDarkMode = TRUE]
    /\ \E route \in Routes : dom' = [InitialDom EXCEPT !.route = route]
    /\ UNCHANGED <<now, searchCache, calls, popular, details, view, cover, home, form>>

\* Lines 17-40, after the first render: the first effect reads the saved
\* theme and sets the state from it, the second effect, still with the
\* isDarkMode of the first render, applies and saves that.  (The effect of a
\* Hero mounted by the same render has run before and added the class too.)
\* A changed state renders again.
ThemeMountEffects ==
    /\ theme.phase = "mounted"
    /\ LET savedTheme == GetItem(theme.storage, THEME_KEY)
           next == IF Truthy(savedTheme) THEN savedTheme.s = "dark" ELSE TRUE
       IN theme' = [theme EXCEPT
              !.storage = MapSet(@, THEME_KEY, ThemeName(theme.isDarkMode)),
              !.isDarkMode = next,
              !.phase = IF next = theme.isDarkMode THEN "settled" ELSE "rerendered"]
    /\ dom' = WithDarkClass(dom, theme.isDarkMode)
    /\ UNCHANGED <<now, searchCache, calls, popular, details, view, cover, home, form>>

\* Lines 28-40, after a render with a changed isDarkMode: the second effect
\* applies the theme and saves it.
ThemeApplyEffect ==
    /\ theme.phase = "rerendered"
    /\ theme' = [theme EXCEPT
           !.storage = MapSet(@, THEME_KEY, ThemeName(theme.isDarkMode)),
           !.phase = "settled"]
    /\ dom' = WithDarkClass(dom, theme.isDarkMode)
    /\ UNCHANGED <<now, searchCache, calls, popular, details, view, cover, home, form>>

\* Lines 42-44 and 28-40: a click on the theme button, handled once no effect
\* is pending; the state flips and the effect of the new render applies and
\* saves it.
toggleTheme ==
    /\ theme.phase = "settled"
    /\ theme' = [theme EXCEPT
           !.isDarkMode = ~theme.isDarkMode,
           !.storage = MapSet(@, THEME_KEY, ThemeName(~theme.isDarkMode)),
           !.chosen = ThemeName(~theme.isDarkMode)]
    /\ dom' = WithDarkClass(dom, ~theme.isDarkMode)
    /\ UNCHANGED <<now, searchCache, calls, popular, details, view, cover, home, form>>

\* The page is reloaded or closed: the provider and the document are gone,
\* the storage stays.
ThemeReload ==
    /\ theme.phase # "unloaded"
    /\ theme' = [theme EXCEPT !.phase = "unloaded", !.isDarkMode = TRUE]
    /\ dom' = InitialDom
    /\ UNCHANGED <<now, searchCache, calls, popular, details, view, cover, home, form>>

\* App.jsx, lines 11-14, and Hero.jsx, lines 99-103: the reader follows a
\* link to the other route once no effect is pending.  The provider stays
\* mounted; arriving at "/" mounts Hero, whose effect adds the class "dark"
\* to both elements, and leaving it unmounts Hero, which has no cleanup.
Navigate(route) ==
    /\ theme.phase = "settled"
    /\ route # dom.route
    /\ dom' = IF route = "home"
              THEN [WithDarkClass(dom, TRUE) EXCEPT !.route = route]
              ELSE [dom EXCEPT !.route = route]
    /\ UNCHANGED <<now, searchCache, calls, popular, details, view, theme, cover, home, form>>


(***************************************************************************)
(* BookCoverDetail (src/components/BookDetail.jsx, lines 308-425)          *)
(***************************************************************************)
COVER_TIMEOUT == 3000

\* The component before it is mounted.  timer is the 3 s timer of the effect
\* ("none", "armed", "fired", "cleared"), img the size whose URL the test
\* image is loading ("none" when no load is pending).
IdleCover ==
    [mounted |-> FALSE, coverId |-> Undefined, src |-> Null, loading |-> FALSE,
     error |-> FALSE, timer |-> "none", img |-> "none"]

\* clearTimeout(timeoutId): disarms an armed timer, nothing else.
ClearedTimer(timer) == IF timer = "armed" THEN "cleared" ELSE timer

\* Lines 309-377: the first render (src null, loading true, error false) and
\* the effect that follows it.
CoverMount(coverId) ==
    /\ ~cover.mounted
    /\ LET coverUrl == getSimpleCoverUrl(coverId, Str("L"))
           mounted == [IdleCover EXCEPT !.mounted = TRUE, !.coverId = coverId]
       IN cover' =
            IF ~Truthy(coverId) \/ coverId = Num(-1) \/ ~Truthy(coverUrl)
            THEN [mounted EXCEPT !.loading = FALSE, !.error = TRUE]
            ELSE [mounted EXCEPT !.loading = TRUE, !.error = FALSE,
                                 !.timer = "armed", !.img = "L"]
    /\ UNCHANGED <<now, searchCache, calls, popular, details, view, theme, home, form, dom>>

\* Lines 336-343: the timer fires after COVER_TIMEOUT.
CoverTimeout ==
    /\ cover.mounted
    /\ cover.timer = "armed"
    /\ cover' = [cover EXCEPT !.timer = "fired", !.error = TRUE, !.loading = FALSE]
    /\ UNCHANGED <<now, searchCache, calls, popular, details, view, theme, home, form, dom>>

\* Lines 347-355: the test image has loaded, the large URL or the medium one;
\* src is set to coverUrl, the large URL, in both cases.
CoverImgLoad ==
    /\ cover.mounted
    /\ cover.img # "none"
    /\ cover' = [cover EXCEPT !.timer = ClearedTimer(@), !.img = "none",
                              !.src = getSimpleCoverUrl(cover.coverId, Str("L")),
                              !.loading = FALSE, !.error = FALSE]
    /\ UNCHANGED <<now, searchCache, calls, popular, details, view, theme, home, form, dom>>

\* Lines 357-372: the test image has failed.  The timer is cleared and the
\* medium URL is assigned to the test image, which starts a load; only when
\* the medium URL equals the large one is the error shown.
CoverImgError ==
    /\ cover.mounted
    /\ cover.img # "none"
    /\ LET coverUrl == getSimpleCoverUrl(cover.coverId, Str("L"))
           fallbackUrl == getSimpleCoverUrl(cover.coverId, Str("M"))
       IN cover' =
            IF fallbackUrl # coverUrl
            THEN [cover EXCEPT !.timer = ClearedTimer(@), !.img = "M"]
            ELSE [cover EXCEPT !.timer = ClearedTimer(@), !.img = "none",
                               !.error = TRUE, !.loading = FALSE]
    /\ UNCHANGED <<now, searchCache, calls, popular, details, view, theme, home, form, dom>>

\* Lines 406-422: the rendered <img> fails to load src.
CoverShownError ==
    /\ cover.mounted
    /\ ~cover.loading /\ ~cover.error /\ Truthy(cover.src)
    /\ cover' = [cover EXCEPT !.src = Null, !.error = TRUE]
    /\ UNCHANGED <<now, searchCache, calls, popular, details, view, theme, home, form, dom>>

\* Lines 374-376: the component unmounts; the cleanup cancels the handlers
\* and clears the timer.
CoverUnmount ==
    /\ cover.mounted
    /\ cover' = IdleCover
    /\ UNCHANGED <<now, searchCache, calls, popular, details, view, theme, home, form, dom>>

\* What the component renders (lines 379-424).
CoverRender ==
    IF cover.loading THEN "spinner"
    ELSE IF cover.error \/ ~Truthy(cover.src) THEN "placeholder"
    ELSE "image"

(***************************************************************************)
(* HomePage (src/components/HomePage.jsx) and what BookResults renders     *)
(***************************************************************************)
BOOKS_PER_PAGE == 20
INITIAL_COUNT == 16
SEARCH_LIMIT == 1000

\* searchInfo: null, or { total, showing, searchTerms }.
NoSearchInfo == [set |-> FALSE, total |-> 0, showing |-> 0, searchTerms |-> NoCriteria]

SearchInfo(total, showing, searchTerms) ==
    [set |-> TRUE, total |-> total, showing |-> showing, searchTerms |-> searchTerms]

\* lastSearchParams: null, { isInitial: true }, or the criteria of a search.
NoParams == [kind |-> "null", params |-> NoCriteria]
InitialParams == [kind |-> "initial", params |-> NoCriteria]
SearchParams(searchParams) == [kind |-> "search", params |-> searchParams]

\* { subject: "Popular Books" }
PopularTerms == Criteria(Undefined, Undefined, Str("Popular Books"))

\* Lines 8-17: the component before it is mounted, with the initial values of
\* its states.  latest is the request started last, written as a value of
\* lastSearchParams.
IdleHome ==
    [mounted |-> FALSE, books |-> <<>>, loading |-> TRUE, error |-> Null,
     searchInfo |-> NoSearchInfo, isInitialLoad |-> TRUE, currentPage |-> 1,
     lastSearchParams |-> NoParams, isPageTurning |-> FALSE, latest |-> NoParams]

\* Lines 21-27 and 46: the page is opened; the first render, then the effect
\* calls loadInitialBooks, which runs up to its await of getPopularBooks(16),
\* that is getPopularBooksWithCovers(16, 0) (part_001, lines 273-276).
HomeMount ==
    /\ ~home.mounted
    /\ popular.pc = "idle"
    /\ calls[PopularSlot].pc = "idle"
    /\ PopularAdvance([IdlePopular EXCEPT !.targetCount = INITIAL_COUNT,
                                          !.offset = 0, !.i = 1])
    /\ home' = [IdleHome EXCEPT !.mounted = TRUE, !.loading = TRUE, !.error = Null,
                                !.latest = InitialParams]
    /\ UNCHANGED <<now, searchCache, details, view, theme, cover, form, dom>>

\* Lines 28-44: getPopularBooks has returned.  (getPopularBooksWithCovers
\* catches the failures of its queries, so the catch block is not reached.)
HomeInitialLoaded ==
    /\ home.mounted
    /\ popular.pc = "done"
    /\ LET results == popular.result
       IN home' = [home EXCEPT
              !.books = results.docs,
              !.searchInfo = SearchInfo(Len(results.docs),
                                        Min(Len(results.docs), BOOKS_PER_PAGE),
                                        PopularTerms),
              !.lastSearchParams = InitialParams,
              !.loading = FALSE,
              !.isInitialLoad = FALSE]
    /\ popular' = IdlePopular
    /\ UNCHANGED <<now, searchCache, calls, details, view, theme, cover, form, dom>>

\* Lines 49-56: handleSearch up to its await of searchBooks(searchParams, 1000),
\* which runs in call slot c.
handleSearch(c, searchParams) ==
    /\ home.mounted
    /\ calls[c].pc = "idle"
    /\ calls' = [calls EXCEPT ![c] = StartedCall(searchParams, SEARCH_LIMIT, 0)]
    /\ home' = [home EXCEPT !.currentPage = 1, !.loading = TRUE, !.error = Null,
                            !.isInitialLoad = FALSE,
                            !.lastSearchParams = SearchParams(searchParams),
                            !.latest = SearchParams(searchParams)]

\* BookSearch calls onSearch(searchParams).
HomeSearch(c, searchParams) ==
    /\ handleSearch(c, searchParams)
    /\ UNCHANGED <<now, searchCache, popular, details, view, theme, cover, form, dom>>

\* Lines 57-70: searchBooks has returned in slot c.  (searchBooks catches its
\* failures, so the catch block is not reached.)
HomeSearchLoaded(c) ==
    /\ home.mounted
    /\ calls[c].pc = "done"
    /\ calls[c].timer # "armed"
    /\ LET results == calls[c].result
       IN home' = [home EXCEPT
              !.books = results.docs,
              !.searchInfo =
                  SearchInfo(IF Truthy(results.numFound) THEN results.numFound.n ELSE 0,
                             Min(Len(results.docs), BOOKS_PER_PAGE),
                             calls[c].criteria),
              !.loading = FALSE]
    /\ calls' = [calls EXCEPT ![c] = IdleCall]
    /\ UNCHANGED <<now, searchCache, popular, details, view, theme, cover, form, dom>>

TotalPages_DefaultPerPage(length, booksPerPage) == (length + 12 - 1) \div 12

\* BookResults.jsx, line 85: Math.ceil(books.length / booksPerPage).
TotalPages(length, booksPerPage) == (length + booksPerPage - 1) \div booksPerPage

\* BookResults.jsx, lines 21-82 and 128-137: the pagination controls are
\* rendered below a non-empty list of more than one page.
PaginationRendered ==
    /\ home.mounted
    /\ ~home.loading
    /\ ~Truthy(home.error)
    /\ Len(home.books) > 0
    /\ TotalPages(Len(home.books), BOOKS_PER_PAGE) > 1

(***************************************************************************)
(* BookSearch (src/components/BookSearch.jsx)                              *)
(***************************************************************************)
DEBOUNCE_DELAY == 500
MIN_AUTO_LENGTH == 3

\* Lines 4-8: the fields of the form, all empty.
EmptyParams == Criteria(Str(""), Str(""), Str(""))

\* Line 11: debounceRef.current is null.  A timer is written as the params
\* its callback closes over.
NoTimer == NoCriteria

\* Lines 4-11: the form as it is first rendered.  timers is the set of the
\* pending timers, debounceRef the timer the ref names (pending or not).
IdleForm == [searchParams |-> EmptyParams, debounceRef |-> NoTimer, timers |-> {}]

\* params.title || params.author || params.subject
AnyField(params) ==
    Truthy(params.title) \/ Truthy(params.author) \/ Truthy(params.subject)

\* Lines 29-41 and 13-25: a field is edited.  A value of three characters or
\* more clears the timer the ref names and starts one over newParams.
handleChange(field, value) ==
    /\ home.mounted
    /\ LET newParams == [form.searchParams EXCEPT ![field] = Str(value)]
       IN form' = IF Len(value) >= MIN_AUTO_LENGTH
                  THEN [form EXCEPT !.searchParams = newParams,
                                    !.timers = (@ \ {form.debounceRef}) \cup {newParams},
                                    !.debounceRef = newParams]
                  ELSE [form EXCEPT !.searchParams = newParams]
    /\ UNCHANGED <<now, searchCache, calls, popular, details, view, theme, cover, home, dom>>

\* Lines 20-24: a pending timer fires after DEBOUNCE_DELAY and searches with
\* the params of its closure, in call slot c.
DebounceFire(c, params) ==
    /\ home.mounted
    /\ params \in form.timers
    /\ form' = [form EXCEPT !.timers = @ \ {params}]
    /\ IF AnyField(params)
       THEN handleSearch(c, params)
       ELSE UNCHANGED <<calls, home>>
    /\ UNCHANGED <<now, searchCache, popular, details, view, theme, cover, dom>>

\* Lines 43-58 and 132-139: the form is submitted; the button is enabled
\* when nothing is loading and a field is filled.
handleSubmit(c) ==
    /\ home.mounted
    /\ ~home.loading
    /\ AnyField(form.searchParams)
    /\ form' = [form EXCEPT !.timers = @ \ {form.debounceRef}]
    /\ handleSearch(c, form.searchParams)
    /\ UNCHANGED <<now, searchCache, popular, details, view, theme, cover, dom>>

\* Lines 60-66 and 145-148: Clear, enabled when nothing is loading.
handleClear ==
    /\ home.mounted
    /\ ~home.loading
    /\ form' = [form EXCEPT !.searchParams = EmptyParams]
    /\ UNCHANGED <<now, searchCache, calls, popular, details, view, theme, cover, home, dom>>

(***************************************************************************)
(* The search specification: overlapping calls, the clock, the upstream    *)
(***************************************************************************)
MaxCalls == 2
TicksPerTTL == 2
MaxTicks == 3
TickMs == CACHE_DURATION \div TicksPerTTL

Callers == 1..MaxCalls

\* A new call takes the lowest free slot.
FreeSlot(c) == calls[c].pc = "idle" /\ \A d \in 1..(c - 1) : calls[d].pc # "idle"

SearchLimits == {25}
SearchOffsets == {0}

DocDune == Book(Str("/works/OL893415W"), Str("Dune"), Arr(<<"Frank Herbert">>),
                Num(1965), Num(11481354))
DocHobbit == Book(Str("/works/OL27482W"), Str("The Hobbit"), Arr(<<"J.R.R. Tolkien">>),
                  Num(1937), Num(14627509))

SearchBodies ==
    { Body("object", "array", <<DocHobbit>>, Num(1)),
      Body("object", "array", <<DocHobbit, DocDune>>, Num(2)) }

Tick ==
    /\ now + TickMs <= MaxTicks * TickMs
    /\ now' = now + TickMs
    /\ UNCHANGED <<searchCache, calls, popular, details, view, theme, cover, home, form, dom>>

Init ==
    /\ now = 0
    /\ searchCache = <<>>
    /\ calls = [c \in {PopularSlot} \cup Callers |-> IdleCall]
    /\ popular = IdlePopular
    /\ details = IdleDetails
    /\ view = IdleView
    /\ theme = InitialTheme
    /\ cover = IdleCover
    /\ home = IdleHome
    /\ form = IdleForm
    /\ dom = InitialDom

Next ==
    \/ Tick
    \/ \E c \in Callers, criteria \in SearchCriteria,
          limit \in SearchLimits, offset \in SearchOffsets :
          FreeSlot(c) /\ SearchStart(c, criteria, limit, offset)
    \/ \E c \in Callers, ok \in BOOLEAN : FetchResolve(c, ok)
    \/ \E c \in Callers : FetchReject(c)
    \/ \E c \in Callers : TimeoutFire(c)
    \/ \E c \in Callers, data \in SearchBodies : BodyResolve(c, data)
    \/ \E c \in Callers : BodyReject(c)
    \/ \E c \in Callers : SearchReturn(c)

Spec == Init /\ [][Next]_vars
(***************************************************************************)
(* The data specification: one call at a time over varied criteria and     *)
(* response bodies                                                         *)
(***************************************************************************)
DataLimits == {25, 1000}
DataOffsets == {0}

DocFourAuthors ==
    Book(Str("/works/OL1W"), Str("Good Omens"),
         Arr(<<"Terry Pratchett", "Neil Gaiman", "A. Editor", "B. Editor">>),
         Num(1990), Num(8231856))
DocNoTitle ==
    Book(Str("/works/OL2W"), Undefined, Arr(<<"Anonymous">>), Num(1900), Num(77))
DocEmptyAuthors ==
    Book(Str("/works/OL3W"), Str("Beowulf"), Arr(<<>>), Num(1815), Undefined)
DocScalarFields ==
    [Book(Str("/works/OL4W"), Str("Dune"), Str("Frank Herbert"), Num(1965), Num(11481354))
        EXCEPT !.publisher = Arr(<<"Ace">>), !.isbn = Str("9780441013593"),
               !.language = Arr(<<"eng">>), !.subject = Str("Science fiction")]
DocAuthorOnly ==
    Book(Str("/works/OL5W"), Str("Emma"), Arr(<<"Jane Austen">>), Undefined, Undefined)

\* A long response: MaxDocs documents, the second and the fifth without title.
MaxDocs == 18

ManyDocs ==
    [i \in 1..MaxDocs |->
        Book(Str("/works/OL" \o ToString(100 + i) \o "W"),
             IF i \in {2, 5} THEN Undefined ELSE Str("Volume " \o ToString(i)),
             Arr(<<"Anonymous">>), Num(1900 + i), Num(1000 + i))]

DataBodies ==
    { Body("object", "array", ManyDocs, Num(4000)),
      Body("object", "array", <<DocFourAuthors, DocNoTitle>>, Num(2)),
      Body("object", "array", <<DocEmptyAuthors>>, Num(1)),
      Body("object", "array", <<DocScalarFields, DocAuthorOnly>>, Num(2)),
      Body("object", "array", <<>>, Num(0)),
      Body("object", "array", <<DocAuthorOnly, NullDoc>>, Num(2)),
      Body("object", "string", <<>>, Num(1)),
      Body("object", "undefined", <<>>, Undefined),
      Body("number", "undefined", <<>>, Undefined),
      Body("null", "undefined", <<>>, Undefined) }

\* The calls of a run of this specification use one cache key at a time.
OnlyKeyCached(criteria, limit, offset) ==
    DOMAIN searchCache \subseteq {CacheKey(criteria, limit, offset)}

NextData ==
    \/ Tick
    \/ \E criteria \in DataCriteria, limit \in DataLimits, offset \in DataOffsets :
          OnlyKeyCached(criteria, limit, offset) /\ SearchStart(1, criteria, limit, offset)
    \/ \E ok \in BOOLEAN : FetchResolve(1, ok)
    \/ FetchReject(1)
    \/ TimeoutFire(1)
    \/ \E data \in DataBodies : BodyResolve(1, data)
    \/ BodyReject(1)
    \/ SearchReturn(1)

SpecData == Init /\ [][NextData]_vars

(***************************************************************************)
(* The details specification                                               *)
(***************************************************************************)
DetailKeys == {"/works/OL27482W", "OL27482W", "/books/OL7353617M", "OL27482W/editions"}

DetailWorks ==
    { Work(Str("The Hobbit"),
           List("array", <<AuthorEntry("ref", "/authors/OL26320A")>>),
           Str("A fantasy novel."), Arr(<<"Fantasy", "Dragons">>),
           List("array", <<14627509>>), Str("September 21, 1937")),
      Work(Undefined,
           List("array", <<AuthorEntry("string", "Frank Herbert"),
                           AuthorEntry("named", "F. Herbert"),
                           AuthorEntry("object", "")>>),
           Undefined, Str("Science fiction"), List("undefined", <<>>), Undefined),
      Work(Str("Emma"), List("array", <<AuthorEntry("number", "")>>),
           DescriptionObject("A novel of manners."), Null,
           List("array", <<0, 8231856>>), Undefined),
      Work(Str("Dune"), List("array", <<AuthorEntry("null", "")>>),
           Undefined, Undefined, List("array", <<>>), Str("1965-08-01")),
      NullWork }

DetailEditions ==
    { Editions("object",
               <<Edition(Arr(<<"Allen & Unwin">>), Arr(<<"9780261102217">>),
                         Arr(<<"0261102214">>), Arr(<<"eng">>))>>, Num(120)),
      Editions("object",
               <<Edition(Undefined, Undefined, Arr(<<"0441013597">>), Undefined)>>,
               Undefined),
      Editions("object",
               <<Edition(Arr(<<"Ace Books">>), Arr(<<>>), Arr(<<"0441172717">>),
                         Arr(<<>>))>>, Num(3)),
      Editions("object", <<>>, Num(0)),
      NoEditions }

NextDetails ==
    \/ \E bookKey \in DetailKeys : DetailsStart(bookKey)
    \/ \E ok \in BOOLEAN : WorkResolve(ok)
    \/ WorkReject
    \/ \E bookData \in DetailWorks : WorkBodyResolve(bookData)
    \/ WorkBodyReject
    \/ \E ok \in BOOLEAN : EditionsResolve(ok)
    \/ EditionsReject
    \/ \E editionsData \in DetailEditions : EditionsBodyResolve(editionsData)
    \/ EditionsBodyReject
    \/ DetailsReturn

SpecDetails == Init /\ [][NextDetails]_vars

(***************************************************************************)
(* The popular specification: getPopularBooksWithCovers over upstream      *)
(* responses that succeed or fail per query                                *)
(***************************************************************************)
MaxCached == 2

PopularTargets == {1, 2, 16}
PopularOffsets == {0, 2}

DocPersuasion == Book(Str("/works/OL66562W"), Str("Persuasion"), Arr(<<"Jane Austen">>),
                      Num(1817), Num(5000000))
DocBelowCeiling == Book(Str("/works/OL66513W"), Str("Emma"), Arr(<<"Jane Austen">>),
                        Num(1815), Num(COVER_CEILING - 1))
DocAtCeiling == Book(Str("/works/OL66534W"), Str("Mansfield Park"), Arr(<<"Jane Austen">>),
                     Num(1814), Num(COVER_CEILING))
DocMiddlemarch == Book(Str("/works/OL20930W"), Str("Middlemarch"), Arr(<<"George Eliot">>),
                       Num(1871), Num(9000000))
DocBelowBroadCeiling == Book(Str("/works/OL20931W"), Str("Silas Marner"),
                             Arr(<<"George Eliot">>), Num(1861),
                             Num(BROAD_COVER_CEILING - 1))
DocAtBroadCeiling == Book(Str("/works/OL20932W"), Str("Romola"), Arr(<<"George Eliot">>),
                          Num(1863), Num(BROAD_COVER_CEILING))
\* The key of a record of the fallback catalog, under another cover.
DocHobbitReissue == Book(Str("/works/OL5735363W"), Str("The Hobbit"),
                         Arr(<<"J.R.R. Tolkien">>), Num(1937), Num(6000000))

PopularBodies ==
    { Body("object", "array",
           <<DocPersuasion, DocPersuasion, DocBelowCeiling, DocAtCeiling>>, Num(4)),
      Body("object", "array",
           <<DocMiddlemarch, DocMiddlemarch, DocHobbitReissue, DocBelowBroadCeiling,
             DocAtBroadCeiling>>, Num(5)) }

NextPopular ==
    \/ \E targetCount \in PopularTargets, offset \in PopularOffsets :
          PopularStart(targetCount, offset)
    \/ \E ok \in BOOLEAN :
          /\ ok => Cardinality(DOMAIN searchCache) < MaxCached
          /\ FetchResolve(PopularSlot, ok)
    \/ FetchReject(PopularSlot)
    \/ \E data \in PopularBodies : BodyResolve(PopularSlot, data)
    \/ BodyReject(PopularSlot)
    \/ PopularCollect
    \/ PopularTopUp
    \/ PopularReturn

SpecPopular == Init /\ [][NextPopular]_vars

(***************************************************************************)
(* The liveness specification: one searchBooks call and one getBookDetails *)
(* call against an upstream that may stay silent.  Time passes and a timer *)
(* that is due fires; nothing obliges the upstream to answer.              *)
(***************************************************************************)
LiveCaller == 1

LiveCriteria == {Criteria(Str("hobbit"), Undefined, Undefined)}
LiveBodies == {Body("object", "array", <<DocHobbit>>, Num(1))}
LiveKeys == {"OL27482W"}
LiveWorks ==
    {Work(Str("The Hobbit"), List("array", <<AuthorEntry("string", "J.R.R. Tolkien")>>),
          Str("A fantasy novel."), Arr(<<"Fantasy">>), List("array", <<14627509>>),
          Str("1937"))}

\* A call starts while the clock of the model can still pass its deadline.
ClockCanPassDeadline == now + TickMs <= MaxTicks * TickMs

NextLive ==
    \/ Tick
    \/ \E criteria \in LiveCriteria, limit \in SearchLimits, offset \in SearchOffsets :
          ClockCanPassDeadline /\ SearchStart(LiveCaller, criteria, limit, offset)
    \/ \E ok \in BOOLEAN : FetchResolve(LiveCaller, ok)
    \/ FetchReject(LiveCaller)
    \/ TimeoutFire(LiveCaller)
    \/ \E data \in LiveBodies : BodyResolve(LiveCaller, data)
    \/ BodyReject(LiveCaller)
    \/ SearchReturn(LiveCaller)
    \/ \E bookKey \in LiveKeys : DetailsStart(bookKey)
    \/ \E ok \in BOOLEAN : WorkResolve(ok)
    \/ WorkReject
    \/ \E bookData \in LiveWorks : WorkBodyResolve(bookData)
    \/ WorkBodyReject
    \/ \E ok \in BOOLEAN : EditionsResolve(ok)
    \/ EditionsReject
    \/ \E editionsData \in DetailEditions : EditionsBodyResolve(editionsData)
    \/ EditionsBodyReject
    \/ DetailsReturn

SpecLive ==
    /\ Init
    /\ [][NextLive]_vars
    /\ WF_vars(Tick)
    /\ WF_vars(TimeoutFire(LiveCaller))

(***************************************************************************)
(* The view specification: the display helpers applied to cover ids,       *)
(* sizes and author lists                                                  *)
(***************************************************************************)
MaxAuthors == 5

CoverIds ==
    {Undefined, Null, Num(-1), Num(0), Num(1), Num(12345), Num(14627509),
     Str(""), Str("12345"), Str("-1")}

CoverSizes ==
    {Undefined, Null, Str("S"), Str("M"), Str("L"), Str("X"), Str("m"), Str("")}

AuthorNames == [i \in 1..MaxAuthors |-> "Author" \o ToString(i)]

AuthorLists ==
    {Undefined, Null, Str("A")} \cup {Arr(SubSeq(AuthorNames, 1, n)) : n \in 0..MaxAuthors}
        \cup {Arr(<<"Ursula K. Le Guin", "A">>), Arr(<<"B", "A", "B">>)}

NextView ==
    \/ \E coverId \in CoverIds, size \in CoverSizes : CoverUrl(coverId, size)
    \/ \E coverId \in CoverIds, size \in CoverSizes : SimpleCoverUrl(coverId, size)
    \/ \E authors \in AuthorLists : FormatAuthors(authors)

SpecView == Init /\ [][NextView]_vars

(***************************************************************************)
(* The theme specification: the provider over loads, toggles and reloads,  *)
(* around views that call the display helpers                              *)
(***************************************************************************)
NextTheme ==
    \/ ThemeLoad
    \/ ThemeMountEffects
    \/ ThemeApplyEffect
    \/ toggleTheme
    \/ ThemeReload
    \/ \E route \in Routes : Navigate(route)
    \/ \E coverId \in {Undefined, Num(12345)}, size \in {Str("S"), Str("L")} :
          CoverUrl(coverId, size)
    \/ \E authors \in AuthorLists : FormatAuthors(authors)

SpecTheme == Init /\ [][NextTheme]_vars

(***************************************************************************)
(* The cover specification: the detail page mounts BookCoverDetail with    *)
(* the cover_i of a book; the image server answers, fails or stays silent  *)
(***************************************************************************)
MaxCoverId == 14

\* book.cover_i of getBookDetails: covers[0] or null (part_001, line 427).
DetailCoverIds == {Null, Num(-1), Num(0)} \cup {Num(n) : n \in 1..MaxCoverId}

NextCover ==
    \/ \E coverId \in DetailCoverIds : CoverMount(coverId)
    \/ CoverTimeout
    \/ CoverImgLoad
    \/ CoverImgError
    \/ CoverShownError
    \/ CoverUnmount

\* The browser fires an armed timer; nothing obliges the image server to
\* answer, nor the reader to leave the page.
SpecCover ==
    /\ Init
    /\ [][NextCover]_vars
    /\ WF_vars(CoverTimeout)

(***************************************************************************)
(* The home specification: HomePage with its initial load and its         *)
(* searches over the service                                               *)
(***************************************************************************)
HomeCriteria ==
    { Criteria(Str("hobbit"), Str(""), Str("")),
      Criteria(Str("the"), Str("jane"), Undefined) }

\* The upstream of this specification answers a query by its criteria: the
\* long list, except for the top-up query and the second search, which get
\* the short one.
HomeUpstream(criteria) ==
    IF criteria = BroadQuery \/ criteria.author = Str("jane")
    THEN Body("object", "array", <<DocFourAuthors, DocNoTitle>>, Num(2))
    ELSE Body("object", "array", ManyDocs, Num(4000))

NextHome ==
    \/ HomeMount
    \/ \E c \in Callers, searchParams \in HomeCriteria :
          FreeSlot(c) /\ HomeSearch(c, searchParams)
    \/ FetchResolve(PopularSlot, TRUE)
    \/ \E c \in Callers, ok \in BOOLEAN : FetchResolve(c, ok)
    \/ \E c \in {PopularSlot} \cup Callers :
          BodyResolve(c, HomeUpstream(calls[c].criteria))
    \/ PopularCollect
    \/ PopularTopUp
    \/ HomeInitialLoaded
    \/ \E c \in Callers : HomeSearchLoaded(c)

SpecHome == Init /\ [][NextHome]_vars

(***************************************************************************)
(* The form specification: BookSearch edited, submitted and cleared over a *)
(* page whose searches the upstream refuses                                *)
(***************************************************************************)
FormCaller == 1
FormFields == {"title", "author"}
FormValues == {"", "ho", "hobbit"}

NextForm ==
    \/ HomeMount
    \/ \E field \in FormFields, value \in FormValues : handleChange(field, value)
    \/ \E params \in form.timers : DebounceFire(FormCaller, params)
    \/ handleSubmit(FormCaller)
    \/ handleClear
    \/ FetchResolve(FormCaller, FALSE)
    \/ HomeSearchLoaded(FormCaller)

SpecForm == Init /\ [][NextForm]_vars

(***************************************************************************)
(* Claims about the cache of searchBooks (specification Spec)              *)
(***************************************************************************)
\* The step in which call c starts: it leaves the idle state.
Starts(c) == calls[c].pc = "idle" /\ calls'[c].pc # "idle"

\* A call that has completed after issuing a network request.
Fetched(call) == call.pc = "done" /\ call.outcome \in {"network", "fallback"}

SameArguments(a, b) ==
    a.criteria = b.criteria /\ a.limit = b.limit /\ a.offset = b.offset

\* C1 as stated: of two calls with identical arguments, the second started
\* less than CACHE_DURATION after the first completed, only the first issues a
\* network request; the second is served from the cache.
C1_SecondCallWithinTTLIsCached ==
    [][\A c \in Callers, first \in Callers :
          ( /\ Starts(c)
            /\ Fetched(calls[first])
            /\ SameArguments(calls[first], calls'[c])
            /\ now - calls[first].doneAt < CACHE_DURATION )
          => calls'[c].outcome = "cached"]_vars

\* C1 as amended: when the first call obtained its result over the network, an
\* identical call started less than CACHE_DURATION after it completed is served
\* the cached result and issues no request; a call that starts when its key has
\* no entry, or an entry aged CACHE_DURATION or more, issues a network request.
C1_CachedWithinTTLAfterSuccess ==
    [][\A c \in Callers :
          Starts(c) =>
            /\ \A first \in Callers :
                  ( /\ calls[first].pc = "done"
                    /\ calls[first].outcome = "network"
                    /\ SameArguments(calls[first], calls'[c])
                    /\ now - calls[first].doneAt < CACHE_DURATION )
                  => /\ calls'[c].pc = "done"
                     /\ calls'[c].outcome = "cached"
                     /\ calls'[c].timer = "none"
            /\ LET key == KeyOf(calls'[c])
               IN ( \/ key \notin DOMAIN searchCache
                    \/ now - searchCache[key].timestamp >= CACHE_DURATION )
                  => calls'[c].pc = "fetch"]_vars

\* Witness of C1: a call served from the cache a tick after an identical call
\* stored its network result.
C1_Witness ==
    \E c \in Callers, first \in Callers :
        /\ calls[first].pc = "done" /\ calls[first].outcome = "network"
        /\ calls[c].pc = "done" /\ calls[c].outcome = "cached"
        /\ SameArguments(calls[first], calls[c])
        /\ calls[c].doneAt > calls[first].doneAt
        /\ calls[c].doneAt - calls[first].doneAt < CACHE_DURATION
        /\ calls[c].result = calls[first].result

\* C9 as stated: calls whose text fields differ only by leading or trailing
\* whitespace share a cache entry, so the second, started within the TTL after
\* the first succeeded, issues no network request.
C9_TrimmedFieldsShareCacheEntry ==
    [][\A c \in Callers, first \in Callers :
          ( /\ Starts(c)
            /\ calls[first].pc = "done"
            /\ calls[first].outcome = "network"
            /\ RequestQuery(calls[first].criteria, calls[first].limit, calls[first].offset)
                 = RequestQuery(calls'[c].criteria, calls'[c].limit, calls'[c].offset)
            /\ now - calls[first].doneAt < CACHE_DURATION )
          => calls'[c].outcome = "cached"]_vars

\* C19: searchBooks never returns a cached result aged CACHE_DURATION or
\* more: a call is served from the cache only while now - timestamp is below
\* CACHE_DURATION, and at exactly that age or beyond it issues a request.
C19_CachedOnlyWhileYoungerThanTTL ==
    [][\A c \in Callers :
          Starts(c) =>
            LET key == KeyOf(calls'[c])
            IN /\ calls'[c].outcome = "cached" =>
                     /\ key \in DOMAIN searchCache
                     /\ now - searchCache[key].timestamp < CACHE_DURATION
                     /\ calls'[c].result = searchCache[key].data
               /\ ( /\ key \in DOMAIN searchCache
                    /\ now - searchCache[key].timestamp >= CACHE_DURATION )
                  => /\ calls'[c].pc = "fetch"
                     /\ calls'[c].outcome = "none"
                     /\ calls'[c].timer = "armed"]_vars

\* Witness of C19: a call that has just started and is waiting for the
\* network although its key has an entry, aged exactly CACHE_DURATION.
C19_Witness ==
    \E c \in Callers :
        /\ calls[c].pc = "fetch"
        /\ calls[c].deadline = now + FETCH_TIMEOUT
        /\ KeyOf(calls[c]) \in DOMAIN searchCache
        /\ now - searchCache[KeyOf(calls[c])].timestamp = CACHE_DURATION

\* C20: a call that takes the failure path leaves the cache unchanged (no
\* entry created, an existing entry keeps value and timestamp); entries are
\* created or overwritten only by a successful fetch, under the call's key.
C20_OnlySuccessWritesCache ==
    [][/\ \A c \in Callers :
             (calls[c].pc \in {"fetch", "body"} /\ calls'[c].outcome = "fallback")
             => searchCache' = searchCache
       /\ searchCache' # searchCache =>
             \E c \in Callers :
                /\ calls[c].pc = "body"
                /\ calls'[c].outcome = "network"
                /\ DOMAIN searchCache' = DOMAIN searchCache \cup {KeyOf(calls[c])}
                /\ searchCache'[KeyOf(calls[c])] =
                      [data |-> calls'[c].result, timestamp |-> now]
                /\ \A key \in DOMAIN searchCache \ {KeyOf(calls[c])} :
                      searchCache'[key] = searchCache[key]]_vars

\* Witness of C20: a call failed when its key had an expired entry, and the
\* entry is still there with its old timestamp.
C20_Witness ==
    \E c \in Callers :
        /\ calls[c].pc = "done"
        /\ calls[c].outcome = "fallback"
        /\ KeyOf(calls[c]) \in DOMAIN searchCache
        /\ calls[c].doneAt - searchCache[KeyOf(calls[c])].timestamp >= CACHE_DURATION
        /\ searchCache[KeyOf(calls[c])].data # calls[c].result

\* C21: overlapping calls for the same key are not coalesced: a call that
\* starts while an identical call is in flight, the key having no valid
\* entry, issues its own request; and when a call succeeds after an identical
\* call has succeeded, the one entry of the key holds the later result.
C21_OverlappingCallsFetchAndLastWins ==
    [][\A c \in Callers, first \in Callers :
          /\ ( /\ Starts(c)
               /\ first # c
               /\ calls[first].pc \in {"fetch", "body"}
               /\ SameArguments(calls[first], calls'[c])
               /\ \/ KeyOf(calls'[c]) \notin DOMAIN searchCache
                  \/ now - searchCache[KeyOf(calls'[c])].timestamp >= CACHE_DURATION )
             => calls'[c].pc = "fetch" /\ calls'[c].timer = "armed"
          /\ ( /\ calls[c].pc = "body"
               /\ first # c
               /\ calls'[c].outcome = "network"
               /\ calls[first].pc = "done"
               /\ calls[first].outcome = "network"
               /\ SameArguments(calls[first], calls[c]) )
             => searchCache'[KeyOf(calls[c])] =
                    [data |-> calls'[c].result, timestamp |-> now]]_vars

\* Witness of C21: two identical calls both succeeded over the network less
\* than CACHE_DURATION apart (so the later one started before the earlier one
\* completed) with different results, and the entry holds the later result.
C21_Witness ==
    \E c \in Callers, first \in Callers :
        /\ calls[first].pc = "done" /\ calls[first].outcome = "network"
        /\ calls[c].pc = "done" /\ calls[c].outcome = "network"
        /\ SameArguments(calls[first], calls[c])
        /\ calls[c].doneAt > calls[first].doneAt
        /\ calls[c].doneAt - calls[first].doneAt < CACHE_DURATION
        /\ calls[c].result # calls[first].result
        /\ searchCache[KeyOf(calls[c])].data = calls[c].result

\* C25 (as stated): when a call completes, by the network result or by the
\* failure path, the timeout it armed at its start has been disarmed; no
\* timer of a completed call can still fire.
C25_CompletedCallHasNoArmedTimer ==
    \A c \in Callers : calls[c].pc = "done" => calls[c].timer # "armed"

(***************************************************************************)
(* Claims about the results of searchBooks (specification SpecData)        *)
(***************************************************************************)
Done(c) == calls[c].pc = "done"

\* C2 as stated: whatever the upstream does, the call returns a result made
\* of a docs sequence and a numFound count.
C2_ResultHasDocsAndNumFound ==
    \A c \in Callers :
        Done(c) => /\ DOMAIN calls[c].result.docs = 1..Len(calls[c].result.docs)
                   /\ calls[c].result.numFound.t = "number"

\* Two characters that are equal up to letter case.
SameLetter(a, b) ==
    \/ a = b
    \/ \E i \in 1..Len(UpperCase) :
          {a, b} = {CharAt(UpperCase, i), CharAt(LowerCase, i)}

ContainsIgnoringCase(s, part) ==
    \E i \in 0..(Len(s) - Len(part)) :
        \A j \in 1..Len(part) : SameLetter(CharAt(s, i + j), CharAt(part, j))

\* The fallback-catalog records a failed search is to return.
ExpectedFallbackDocs(criteria) ==
    LET catalog == getFallbackBooks.docs
    IN FilterSeq(catalog,
          {i \in 1..Len(catalog) :
              /\ criteria.title.t = "string" =>
                    ContainsIgnoringCase(catalog[i].title.s, criteria.title.s)
              /\ criteria.author.t = "string" =>
                    \E k \in 1..Len(catalog[i].author_name.a) :
                        ContainsIgnoringCase(catalog[i].author_name.a[k],
                                             criteria.author.s)})

\* C3: a search whose network call failed returns exactly the fallback-catalog
\* records whose title contains the supplied title and one of whose authors
\* contains the supplied author, ignoring case, both required when both are
\* supplied; numFound and totalCount equal the number of returned docs.
C3_FallbackIsFilteredCatalog ==
    \A c \in Callers :
        (Done(c) /\ calls[c].outcome = "fallback") =>
            LET expected == ExpectedFallbackDocs(calls[c].criteria)
            IN /\ calls[c].result.docs = expected
               /\ calls[c].result.numFound = Num(Len(expected))
               /\ calls[c].result.totalCount = Num(Len(expected))

\* Witness of C3: a failed search with a title and an author, in another letter
\* case than the catalog's, that returned the one record matching both.
C3_Witness ==
    \E c \in Callers :
        /\ Done(c) /\ calls[c].outcome = "fallback"
        /\ calls[c].criteria.title = Str("pride")
        /\ calls[c].criteria.author = Str("AUSTEN")
        /\ Len(calls[c].result.docs) = 1
        /\ calls[c].result.docs[1].title = Str("Pride and Prejudice")
        /\ calls[c].result.numFound = Num(1)

\* C7 as stated: every record of a search that succeeded over the network has
\* a title and a cover identifier or at least one author.
C7_ReturnedDocsHaveCoverOrAuthor ==
    \A c \in Callers :
        (Done(c) /\ calls[c].outcome = "network") =>
            \A i \in 1..Len(calls[c].result.docs) :
                LET doc == calls[c].result.docs[i]
                IN /\ Truthy(doc.title)
                   /\ Truthy(doc.cover_i) \/ Len(doc.author_name.a) >= 1

ListFields(doc) == <<doc.author_name, doc.publisher, doc.isbn, doc.language, doc.subject>>

PassingPositions(data) ==
    {i \in 1..Len(data.docs) : HasTitleAndCoverOrAuthor(data.docs[i])}

NthPassing(data, j) ==
    CHOOSE i \in PassingPositions(data) :
        Cardinality({k \in PassingPositions(data) : k <= i}) = j

\* C23: a search that succeeded over the network returns at most 15 records
\* whatever the limit, and they are the first 15 raw documents that pass the
\* filter, normalised, in upstream order.
C23_FirstFifteenPassingInOrder ==
    [][\A data \in DataBodies :
          (BodyResolve(1, data) /\ calls'[1].outcome = "network") =>
             LET docs == calls'[1].result.docs
             IN /\ Len(docs) <= 15
                /\ Len(docs) = Min(15, Cardinality(PassingPositions(data)))
                /\ \A j \in 1..Len(docs) :
                      docs[j] = fastProcessBookData(data.docs[NthPassing(data, j)])]_vars

\* Witness of C23: a call with limit 1000 returned 15 records of a longer
\* response, the last of them the seventeenth raw document.
C23_Witness ==
    /\ Done(1)
    /\ calls[1].outcome = "network"
    /\ calls[1].limit = 1000
    /\ Len(calls[1].result.docs) = 15
    /\ calls[1].result.docs[2].key = ManyDocs[3].key
    /\ calls[1].result.docs[15].key = ManyDocs[17].key
    /\ calls[1].result.numFound = Num(4000)

(***************************************************************************)
(* Claims about getBookDetails (specification SpecDetails)                 *)
(***************************************************************************)
\* C10: when the work-document fetch fails (a network error or a non-success
\* status), getBookDetails fails with the one "Failed to fetch book details"
\* error and returns no record, fallback or partial.
C10_WorkFetchFailureIsOneError ==
    (details.pc = "done" /\ details.workFetch \in {"rejected", "status"}) =>
        /\ details.outcome = "error"
        /\ details.error = FAILED_TO_FETCH
        /\ StartsWith(details.error, "Failed to fetch book details")
        /\ details.book = NoBook

\* Witness of C10: the work fetch answered with a non-success status and the
\* call failed, having issued the work request only.
C10_Witness ==
    /\ details.pc = "done"
    /\ details.workFetch = "status"
    /\ details.outcome = "error"
    /\ Len(details.requests) = 1

\* The call completed after its editions fetch failed.
EditionsFailed ==
    /\ details.pc = "done"
    /\ details.editionsFetch \in {"rejected", "status", "unparseable"}

\* The work-level fields of a returned record.
WorkFields(book) ==
    <<book.title, book.author_name, book.description, book.subject, book.cover_i,
      book.first_publish_year>>

\* C11: a failure of the editions fetch (network error, non-success status or
\* unparseable body) never makes getBookDetails fail, and the work-level
\* fields of the record are those returned when the editions fetch succeeds.
C11_EditionsFailureKeepsWorkFields ==
    EditionsFailed =>
        \A editionsData \in DetailEditions :
            LET succeeded == DetailsBuild(details, editionsData)
            IN /\ details.outcome = succeeded.outcome
               /\ details.outcome = "returned" =>
                     WorkFields(details.book) = WorkFields(succeeded.book)
               /\ details.outcome = "error" =>
                     \/ details.bookData.kind = "null"
                     \/ ExtractAuthorsThrows(details.bookData.authors)

\* Witness of C11: each kind of editions failure ends in a returned record;
\* here the unparseable body, with the work's title in the record.
C11_Witness ==
    /\ EditionsFailed
    /\ details.editionsFetch = "unparseable"
    /\ details.outcome = "returned"
    /\ details.book.title = Str("The Hobbit")
    /\ details.book.publisher = Undefined

\* The canonical work form: "/works/" and a bare identifier with no further
\* path segment.
IsCanonicalKey(key) ==
    /\ StartsWith(key, "/works/")
    /\ Len(key) > Len("/works/")
    /\ \A i \in (Len("/works/") + 1)..Len(key) : CharAt(key, i) # "/"

\* C12 (as stated): the path of every request getBookDetails issues has the
\* canonical work form; a key already in that form is used unchanged.
C12_RequestPathsAreCanonical ==
    details.pc # "idle" =>
        /\ IsCanonicalKey(details.cleanKey)
        /\ IsCanonicalKey(details.bookKey) => details.cleanKey = details.bookKey
        /\ \A r \in 1..Len(details.requests) :
              details.requests[r] \in {BASE_URL \o details.cleanKey \o ".json",
                                       BASE_URL \o details.cleanKey \o "/editions.json"}

\* The call completed after the work fetch answered with a success status
\* and a body that parsed (the editions request was then issued).
WorkDocumentParsed ==
    /\ details.pc = "done"
    /\ details.workFetch = "ok"
    /\ Len(details.requests) = 2

\* C13 (as stated): a success response of unexpected shape is never raised
\* as an error; for every work document, one whose authors list holds null
\* or non-object entries included, getBookDetails returns a record with the
\* defaults substituted.
C13_ParsedWorkAlwaysYieldsRecord ==
    WorkDocumentParsed =>
        /\ details.outcome = "returned"
        /\ details.error = ""
        /\ Truthy(details.book.title)
        /\ \A i \in 1..Len(details.book.author_name) : details.book.author_name[i] # ""

\* The call completed with a record.
DetailsReturned == details.pc = "done" /\ details.outcome = "returned"

HasValues(v) == IsArray(v) /\ Len(v.a) > 0

\* C24 (as stated): when edition data was retrieved, the ISBN list of the
\* record is the first edition's 13-digit list if it has a 13-digit ISBN,
\* otherwise its 10-digit list, otherwise empty; the edition count is the
\* size the editions document reports, or 1 when the size is absent.
C24_IsbnPrefersThirteenThenTen ==
    [][\A editionsData \in DetailEditions :
          ( /\ EditionsBodyResolve(editionsData)
            /\ details'.outcome = "returned"
            /\ editionsData.kind = "object"
            /\ Len(editionsData.entries) >= 1 )
          => LET first == editionsData.entries[1]
             IN /\ details'.book.isbn =
                      (IF HasValues(first.isbn_13) THEN first.isbn_13
                       ELSE IF HasValues(first.isbn_10) THEN first.isbn_10
                       ELSE Arr(<<>>))
                /\ details'.book.edition_count =
                      (IF editionsData.size = Undefined THEN Num(1)
                       ELSE editionsData.size)]_vars

(***************************************************************************)
(* Claims about the display helpers (specification SpecView)               *)
(***************************************************************************)
CoverUrlCalled == view.op \in {"getCoverUrl", "getSimpleCoverUrl"}

\* The URL the claims expect for a cover id and a size.
ExpectedCoverUrl(coverId, size) ==
    LET id == IF coverId.t = "number" THEN ToString(coverId.n) ELSE coverId.s
        letter == IF size \in {Str("S"), Str("M"), Str("L")} THEN size.s ELSE "S"
    IN Str(COVERS_BASE_URL \o "/b/id/" \o id \o "-" \o letter \o ".jpg")

\* C16 (as stated): getCoverUrl and getSimpleCoverUrl return absent exactly
\* when coverId is missing or equals -1; for every other coverId they return
\* '<covers base>/b/id/<coverId>-<size>.jpg', with size S unless it is given
\* as S, M or L.
C16_AbsentExactlyForMissingOrSentinel ==
    CoverUrlCalled =>
        IF view.coverId \in {Undefined, Null, Num(-1)}
        THEN view.result = Null
        ELSE view.result = ExpectedCoverUrl(view.coverId, view.size)

\* C16 (amended): they return absent exactly when coverId is falsy (missing,
\* null, 0 or the empty string) or is the number -1; for every other coverId
\* they return the URL, with size S unless it is given as S, M or L.
C16_AbsentExactlyForFalsyOrSentinel ==
    CoverUrlCalled =>
        IF view.coverId \in {Undefined, Null, Num(0), Str(""), Num(-1)}
        THEN view.result = Null
        ELSE view.result = ExpectedCoverUrl(view.coverId, view.size)

\* Witness of C16: an unknown size falls back to S in the URL of a cover id.
C16_Witness ==
    /\ view.op = "getSimpleCoverUrl"
    /\ view.coverId = Num(12345)
    /\ view.size = Str("X")
    /\ view.result = Str("https://covers.openlibrary.org/b/id/12345-S.jpg")

\* C17: formatAuthors gives 'Unknown Author' for an empty or absent list, the
\* name for one author, 'A & B' for two, and for n >= 3 authors the first two
\* names joined by ', ' followed by ' & (n-2) more'.
C17_FormatAuthorsByCount ==
    view.op = "formatAuthors" =>
        LET names == view.authors.a
            n == Len(names)
        IN view.result =
              Str(CASE view.authors.t # "array" \/ n = 0 -> "Unknown Author"
                    [] view.authors.t = "array" /\ n = 1 -> names[1]
                    [] view.authors.t = "array" /\ n = 2 -> names[1] \o " & " \o names[2]
                    [] OTHER -> names[1] \o ", " \o names[2] \o " & "
                                   \o ToString(n - 2) \o " more")

\* Witness of C17: three authors.
C17_Witness ==
    /\ view.op = "formatAuthors"
    /\ view.authors = Arr(<<"B", "A", "B">>)
    /\ view.result = Str("B, A & 1 more")

(***************************************************************************)
(* Claims about the theme (specification SpecTheme)                        *)
(***************************************************************************)
ThemeSettled == theme.phase = "settled"

\* C18 (as stated): the stored value equals the current theme after any
\* sequence of toggles, and after a reload the theme of the provider is the
\* theme last chosen before it (dark when nothing was ever stored).
C18_ThemeSavedAndRestored ==
    ThemeSettled =>
        /\ GetItem(theme.storage, THEME_KEY) = Str(ThemeName(theme.isDarkMode))
        /\ ThemeName(theme.isDarkMode) =
              (IF theme.chosen = "none" THEN "dark" ELSE theme.chosen)

(***************************************************************************)
(* Claims about termination (specification SpecLive)                       *)
(***************************************************************************)
SearchInFlight == calls[LiveCaller].pc \in {"fetch", "body"}
DetailsInFlight == details.pc \in {"work", "workBody", "editions", "editionsBody"}

\* C14 (as stated): every network call of the client is aborted by a timeout
\* when it has not completed, so a searchBooks call and a getBookDetails call
\* each eventually return or fail, also when the upstream never responds or
\* never finishes sending the body.
C14_EveryCallEventuallyCompletes ==
    /\ SearchInFlight ~> (calls[LiveCaller].pc = "done")
    /\ DetailsInFlight ~> (details.pc = "done")

(***************************************************************************)
(* Claims about getPopularBooksWithCovers (specification SpecPopular)      *)
(***************************************************************************)
\* The call completed and every searchBooks call it made went to the network
\* and failed there.
PopularAllFailed ==
    /\ popular.pc = "done"
    /\ popular.outcomes # <<>>
    /\ \A k \in 1..Len(popular.outcomes) : popular.outcomes[k] = "fallback"

\* C4 (as stated): when the network call of every query issued by
\* getPopularBooksWithCovers fails, the result has empty docs and numFound 0.
C4_AllQueriesFailedGivesEmpty ==
    PopularAllFailed => popular.result.docs = <<>> /\ popular.result.numFound = 0

\* The records of the fallback catalog a total failure collects, in ascending
\* cover-id order: two of them when targetCount is 1, all five otherwise.
CatalogByCover(targetCount) ==
    LET catalog == getFallbackBooks.docs
    IN IF targetCount = 1 THEN <<catalog[1], catalog[4]>>
       ELSE <<catalog[1], catalog[5], catalog[4], catalog[3], catalog[2]>>

\* C4 (amended): when the network call of every query issued fails, the call
\* returns a result drawn from the fallback catalog: numFound is 5 (2 when
\* targetCount is 1) and docs is the window [offset, offset + targetCount) of
\* those catalog records in ascending cover-id order.
C4_AllQueriesFailedGivesCatalog ==
    PopularAllFailed =>
        LET expected == CatalogByCover(popular.targetCount)
        IN /\ popular.result.numFound = Len(expected)
           /\ popular.result.docs =
                  Slice(expected, popular.offset, popular.offset + popular.targetCount)
           /\ popular.result.showing = Len(popular.result.docs)

\* C4 witness: all twelve queries and the top-up query failed, and the result
\* holds records.
C4_Witness ==
    /\ PopularAllFailed
    /\ Len(popular.outcomes) = Len(reliableQueries) + 1
    /\ popular.result.docs # <<>>
    /\ popular.result.numFound = 5

\* The record at position j of the result was pushed by the top-up.
AddedByTopUp(j) ==
    popular.offset + j > Len(popular.uniqueBooks) - popular.added

\* C5: the result holds at most targetCount records, each with a cover id
\* strictly between 0 and 8,000,000, or strictly between 0 and 10,000,000 when
\* the top-up query added the record.
C5_AtMostTargetCountWithCoverInRange ==
    popular.pc = "done" =>
        /\ Len(popular.result.docs) <= popular.targetCount
        /\ \A j \in 1..Len(popular.result.docs) :
              LET cover_i == popular.result.docs[j].cover_i
              IN /\ cover_i.t = "number"
                 /\ cover_i.n > 0
                 /\ cover_i.n < (IF AddedByTopUp(j) THEN 10000000 ELSE 8000000)

\* C5 witness: a result with a record the top-up added above the first
\* ceiling, next to records of the query list, cut to the window.
C5_Witness ==
    /\ popular.pc = "done"
    /\ popular.offset > 0
    /\ \E j \in 1..Len(popular.result.docs) :
          AddedByTopUp(j) /\ popular.result.docs[j].cover_i.n >= 8000000
    /\ \E j \in 1..Len(popular.result.docs) :
          ~AddedByTopUp(j) /\ popular.result.docs[j].cover_i.n = 8000000 - 1

\* C6 (as stated): no two records of the result share a key and numFound
\* counts each key once.
C6_ResultKeysAreDistinct ==
    popular.pc = "done" =>
        /\ \A j, k \in 1..Len(popular.result.docs) :
              popular.result.docs[j].key = popular.result.docs[k].key => j = k
        /\ popular.result.numFound =
              Cardinality({popular.uniqueBooks[j].key : j \in 1..Len(popular.uniqueBooks)})

\* The step in which a query of the list is issued.
IssuesListQuery ==
    popular'.pc = "query" /\ (popular.pc = "idle" \/ popular'.i # popular.i)

\* C22: the queries of the list are issued one at a time in list order, each
\* after the preceding one completed, and none is issued once the books
\* accumulated number at least 3 x targetCount.
C22_QueriesInOrderUntilThreshold ==
    [][IssuesListQuery =>
          /\ calls[PopularSlot].pc \in {"idle", "done"}
          /\ popular'.i = (IF popular.pc = "idle" THEN 1 ELSE popular.i + 1)
          /\ Len(popular'.outcomes) = popular'.i - 1
          /\ calls'[PopularSlot].criteria = reliableQueries[popular'.i]
          /\ calls'[PopularSlot].limit = 25 /\ calls'[PopularSlot].offset = 0
          /\ Len(popular'.allBooks) < 3 * popular'.targetCount]_vars

\* Witness of C22: the call ended its loop before the end of the list, at
\* the threshold, after several queries.
C22_Witness ==
    /\ popular.pc = "done"
    /\ popular.i > 2
    /\ popular.i <= Len(reliableQueries)
    /\ Len(popular.outcomes) = popular.i - 1
    /\ Len(popular.allBooks) >= 3 * popular.targetCount
(***************************************************************************)
(* Claims about BookCoverDetail (specification SpecCover)                  *)
(***************************************************************************)
\* C26: for every coverId the component eventually leaves the loading state
\* and shows the image or the placeholder, also when the large image fails
\* and the medium one fails or never loads.
C26_CoverEventuallyLeavesLoading ==
    (cover.mounted /\ cover.loading) ~> (~cover.mounted \/ ~cover.loading)

(***************************************************************************)
(* Claims about HomePage (specification SpecHome)                          *)
(***************************************************************************)
\* No request of the page is in flight.
HomeSettled ==
    /\ home.mounted
    /\ popular.pc = "idle"
    /\ \A c \in Callers : calls[c].pc = "idle"

\* The search terms the page shows for the request a value of
\* lastSearchParams names.
TermsOf(request) == IF request.kind = "initial" THEN PopularTerms ELSE request.params

\* C27: once every request in flight has completed, the books and the
\* searchInfo shown are those of the request started last.
C27_LatestRequestWins ==
    HomeSettled => home.searchInfo.searchTerms = TermsOf(home.latest)

C28_DebounceSearchesCurrentValues ==
    /\ [](Cardinality(form.timers) <= 1)
    /\ [][\A params \in form.timers :
             DebounceFire(FormCaller, params) =>
                 calls'[FormCaller].criteria = form.searchParams]_vars

(***************************************************************************)
(* Claims about the dark class (specification SpecTheme)                   *)
(***************************************************************************)
\* C29: once the effects have settled, the root element and the body carry
\* the class "dark" exactly when isDarkMode is true, whatever toggles, route
\* changes and reloads came before.
C29_DarkClassFollowsIsDarkMode ==
    theme.phase = "settled" =>
        /\ dom.root = theme.isDarkMode
        /\ dom.body = theme.isDarkMode

====
